---- MODULE Spec2Model ----
(***************************************************************************)
(* Model of the agent-datasource admin console: the identifier quoting,    *)
(* the CSV codec, the remote query executor, the schema accessor, the      *)
(* data provider (query builder) and the table lifecycle operations.       *)
(*                                                                         *)
(* A JavaScript string is modelled as a sequence of one-character strings, *)
(* so that quoting, trimming, case folding, splitting and LIKE matching    *)
(* are computed character by character as the code computes them.          *)
(***************************************************************************)
EXTENDS Integers, Sequences, FiniteSets, TLC

VARIABLES
  arg,    \* input of the pure function under study (quote, CSV codec)
  res,    \* its result, with a marker of how far the computation went
  db,     \* the remote store: its tables (name, columns, rows, last id)
  ret,    \* what the last handler returned / showed
  reqs    \* the requests the last handler sent, in order

vars == <<arg, res, db, ret, reqs>>

None == "none"

(***************************************************************************)
(* Characters and strings                                                  *)
(***************************************************************************)
DQ == "\""
NL == "\n"
CR == "\r"
SP == " "
COMMA == ","

Lowers == <<"a","b","c","d","e","f","g","h","i","j","k","l","m",
            "n","o","p","q","r","s","t","u","v","w","x","y","z">>
Uppers == <<"A","B","C","D","E","F","G","H","I","J","K","L","M",
            "N","O","P","Q","R","S","T","U","V","W","X","Y","Z">>
Digits == {"0","1","2","3","4","5","6","7","8","9"}

IsUpper(c) == \E i \in 1..26 : Uppers[i] = c
IsLower(c) == \E i \in 1..26 : Lowers[i] = c

\* String.prototype.toLowerCase / toUpperCase, per character (ASCII)
toLowerChar(c) ==
  IF IsUpper(c) THEN Lowers[CHOOSE i \in 1..26 : Uppers[i] = c] ELSE c
toUpperChar(c) ==
  IF IsLower(c) THEN Uppers[CHOOSE i \in 1..26 : Lowers[i] = c] ELSE c
toLowerCase(s) == [i \in 1..Len(s) |-> toLowerChar(s[i])]
toUpperCase(s) == [i \in 1..Len(s) |-> toUpperChar(s[i])]

IsSpace(c) == c \in {SP, NL, CR, "\t"}

\* String.prototype.trim
RECURSIVE trimStart(_)
trimStart(s) ==
  IF s # <<>> /\ IsSpace(Head(s)) THEN trimStart(Tail(s)) ELSE s
RECURSIVE trimEnd(_)
trimEnd(s) ==
  IF s # <<>> /\ IsSpace(s[Len(s)]) THEN trimEnd(SubSeq(s, 1, Len(s) - 1)) ELSE s
trim(s) == trimEnd(trimStart(s))

\* String.prototype.includes
includes(s, sub) ==
  \E i \in 1..(Len(s) - Len(sub) + 1) : SubSeq(s, i, i + Len(sub) - 1) = sub

\* Array.prototype.join over strings
RECURSIVE join(_, _)
join(parts, sep) ==
  IF parts = <<>> THEN <<>>
  ELSE IF Len(parts) = 1 THEN parts[1]
  ELSE parts[1] \o sep \o join(Tail(parts), sep)

\* the number of occurrences of character c in s
RECURSIVE CountChar(_, _)
CountChar(s, c) ==
  IF s = <<>> THEN 0
  ELSE (IF Head(s) = c THEN 1 ELSE 0) + CountChar(Tail(s), c)

\* all strings over alphabet A of length at most n
RECURSIVE StringsUpTo(_, _)
StringsUpTo(A, n) ==
  IF n = 0 THEN {<<>>}
  ELSE LET shorter == StringsUpTo(A, n - 1)
       IN  shorter \cup {Append(s, c) : s \in shorter, c \in A}

(***************************************************************************)
(* Identifier quoting (dataProvider quote; the same expression is inlined  *)
(* in sqlDatabase.ts and ImportModal.tsx)                                  *)
(***************************************************************************)
\* name.replace(/"/g, '""')
RECURSIVE doubleQuotes(_)
doubleQuotes(name) ==
  IF name = <<>> THEN <<>>
  ELSE (IF Head(name) = DQ THEN <<DQ, DQ>> ELSE <<Head(name)>>)
       \o doubleQuotes(Tail(name))

\* a quoting that forgets to double the inner quotes
quoteNoEscape(name) == <<DQ>> \o name \o <<DQ>>
\* const quote = (name) => `"${name.replace(/"/g, '""')}"`
quote(name) == <<DQ>> \o doubleQuotes(name) \o <<DQ>>

\* the inverse the specification describes: strip the outer quotes ...
StripOuter(s) == SubSeq(s, 2, Len(s) - 1)
\* ... and un-double the inner ones, left to right
RECURSIVE Undouble(_)
Undouble(s) ==
  IF s = <<>> THEN <<>>
  ELSE IF Len(s) >= 2 /\ s[1] = DQ /\ s[2] = DQ
       THEN <<DQ>> \o Undouble(SubSeq(s, 3, Len(s)))
       ELSE <<Head(s)>> \o Undouble(Tail(s))

\* every double quote of s belongs to a pair of adjacent quotes
RECURSIVE AllQuotesPaired(_)
AllQuotesPaired(s) ==
  IF s = <<>> THEN TRUE
  ELSE IF Head(s) # DQ THEN AllQuotesPaired(Tail(s))
  ELSE Len(s) >= 2 /\ s[2] = DQ /\ AllQuotesPaired(SubSeq(s, 3, Len(s)))

MaxIdentLen == 4
IdentAlphabet == {"a", DQ, "_"}

InitQuote ==
  /\ arg \in StringsUpTo(IdentAlphabet, MaxIdentLen)
  /\ res = [done |-> FALSE, out |-> <<>>]
  /\ db = <<>>
  /\ ret = None
  /\ reqs = <<>>

DoQuote ==
  /\ ~res.done
  /\ res' = [done |-> TRUE, out |-> quote(arg)]
  /\ UNCHANGED <<arg, db, ret, reqs>>

NextQuote == DoQuote

SpecQuote == InitQuote /\ [][NextQuote]_vars

\* C1: quote wraps the identifier in exactly one pair of outer double
\* quotes, doubles every internal double quote, and stripping the outer
\* quotes then un-doubling recovers the original identifier.
QuoteRoundTrip ==
  res.done =>
    /\ Len(res.out) = Len(arg) + CountChar(arg, DQ) + 2
    /\ Head(res.out) = DQ
    /\ res.out[Len(res.out)] = DQ
    /\ AllQuotesPaired(StripOuter(res.out))
    /\ CountChar(StripOuter(res.out), DQ) = 2 * CountChar(arg, DQ)
    /\ Undouble(StripOuter(res.out)) = arg

\* an identifier with two adjacent inner quotes was quoted
QuoteRoundTripWitness ==
  /\ res.done
  /\ includes(arg, <<DQ, DQ>>)
  /\ includes(arg, <<"a">>)

(***************************************************************************)
(* CSV codec (utils/csv.ts)                                                *)
(***************************************************************************)
\* values that are not strings: each is a one-element sequence whose element
\* is no single character, so it differs from every string
Undefined == <<"undefined">>
Null == <<"null">>
NaN == <<"NaN">>

\* escape(val) of generateCSV: null/undefined become the empty string, a
\* value with a comma, a quote or a newline is wrapped and its quotes doubled
escape(val) ==
  IF val = Null \/ val = Undefined THEN <<>>
  ELSE IF includes(val, <<COMMA>>) \/ includes(val, <<DQ>>) \/ includes(val, <<NL>>)
       THEN <<DQ>> \o doubleQuotes(val) \o <<DQ>>
       ELSE val

\* row[header]: a missing key reads as undefined
Field(row, key) == IF key \in DOMAIN row THEN row[key] ELSE Undefined

\* generateCSV(data, headers)
generateCSV(data, headers) ==
  LET headerRow == join(headers, <<COMMA>>)
      bodyLine(row) ==
        join([i \in 1..Len(headers) |-> escape(Field(row, headers[i]))], <<COMMA>>)
      bodyRows == join([r \in 1..Len(data) |-> bodyLine(data[r])], <<NL>>)
  IN  headerRow \o <<NL>> \o bodyRows

\* text.split(/\r?\n/): cur is the line being collected
RECURSIVE splitLinesFrom(_, _)
splitLinesFrom(text, cur) ==
  IF text = <<>> THEN <<cur>>
  ELSE IF Head(text) = NL THEN <<cur>> \o splitLinesFrom(Tail(text), <<>>)
  ELSE IF Head(text) = CR /\ Len(text) >= 2 /\ text[2] = NL
       THEN <<cur>> \o splitLinesFrom(SubSeq(text, 3, Len(text)), <<>>)
       ELSE splitLinesFrom(Tail(text), Append(cur, Head(text)))
splitLines(text) == splitLinesFrom(text, <<>>)

\* the for loop of parseLine, from index i on
RECURSIVE parseLineFrom(_, _, _, _, _)
parseLineFrom(line, i, cur, inQuote, result) ==
  IF i > Len(line) THEN Append(result, cur)
  ELSE IF line[i] = DQ /\ i + 1 <= Len(line) /\ line[i + 1] = DQ
       THEN parseLineFrom(line, i + 2, Append(cur, DQ), inQuote, result)
  ELSE IF line[i] = DQ
       THEN parseLineFrom(line, i + 1, cur, ~inQuote, result)
  ELSE IF line[i] = COMMA /\ ~inQuote
       THEN parseLineFrom(line, i + 1, <<>>, inQuote, Append(result, cur))
  ELSE parseLineFrom(line, i + 1, Append(cur, line[i]), inQuote, result)
parseLine(line) == parseLineFrom(line, 1, <<>>, FALSE, <<>>)

\* parseCSV(text)
parseCSV(text) ==
  LET notBlank(line) == trim(line) # <<>>
      lines == SelectSeq(splitLines(text), notBlank)
  IN  IF lines = <<>> THEN [headers |-> <<>>, rows |-> <<>>]
      ELSE
        LET rawHeaders == parseLine(lines[1])
            headers == [i \in 1..Len(rawHeaders) |-> trim(rawHeaders[i])]
            \* headers.forEach((h, i) => obj[h] = values[i]?.trim()): a later
            \* duplicate header overwrites an earlier one
            rowOf(line) ==
              LET values == parseLine(line)
                  last(h) == CHOOSE i \in 1..Len(headers) :
                               /\ headers[i] = h
                               /\ \A j \in (i + 1)..Len(headers) : headers[j] # h
              IN  [h \in {headers[i] : i \in 1..Len(headers)} |->
                     IF last(h) <= Len(values) THEN trim(values[last(h)])
                     ELSE Undefined]
        IN  [headers |-> headers,
             rows |-> [r \in 1..(Len(lines) - 1) |-> rowOf(lines[r + 1])]]

MaxCsvValueLen == 2
MaxCsvRows == 1
CsvAlphabet == {"a", COMMA, DQ, NL}
CsvValues == StringsUpTo(CsvAlphabet, MaxCsvValueLen)
CsvHeaderLists == { << <<"h">> >>, << <<"h">>, <<"k">> >> }

\* all sequences over S of length at most n
RECURSIVE SeqsUpTo(_, _)
SeqsUpTo(S, n) ==
  IF n = 0 THEN {<<>>}
  ELSE LET shorter == SeqsUpTo(S, n - 1)
       IN  shorter \cup {Append(s, x) : s \in shorter, x \in S}

\* the row lists over a header list: one column takes every value, two
\* columns the values of at most one character
CsvRowLists(hs) ==
  SeqsUpTo([{hs[i] : i \in 1..Len(hs)} ->
              IF Len(hs) = 1 THEN CsvValues ELSE StringsUpTo(CsvAlphabet, 1)],
           MaxCsvRows)

InitCsv ==
  /\ \E hs \in CsvHeaderLists : \E rs \in CsvRowLists(hs) :
       arg = [headers |-> hs, rows |-> rs]
  /\ res = [pc |-> "start", text |-> <<>>, parsed |-> [headers |-> <<>>, rows |-> <<>>]]
  /\ db = <<>>
  /\ ret = None
  /\ reqs = <<>>

\* export: the rows are serialized
DoGenerateCSV ==
  /\ res.pc = "start"
  /\ res' = [res EXCEPT !.pc = "generated",
                         !.text = generateCSV(arg.rows, arg.headers)]
  /\ UNCHANGED <<arg, db, ret, reqs>>

\* import: the text is parsed
DoParseCSV ==
  /\ res.pc = "generated"
  /\ res' = [res EXCEPT !.pc = "parsed", !.parsed = parseCSV(res.text)]
  /\ UNCHANGED <<arg, db, ret, reqs>>

NextCsv == DoGenerateCSV \/ DoParseCSV

SpecCsv == InitCsv /\ [][NextCsv]_vars

\* a value the round trip is claimed for: it holds a comma, a quote or a
\* newline, and is not changed by the parser's trimming of each value
CsvSpecialValue(v) ==
  /\ trim(v) = v
  /\ \/ includes(v, <<COMMA>>)
     \/ includes(v, <<DQ>>)
     \/ includes(v, <<NL>>)

\* C7: parseCSV(generateCSV(rows, headers)) returns the original header
\* list and rows with the original values, for values that contain commas,
\* double quotes or embedded newlines.
CsvRoundTrip ==
  (/\ res.pc = "parsed"
   /\ \A r \in 1..Len(arg.rows) : \A h \in DOMAIN arg.rows[r] :
        CsvSpecialValue(arg.rows[r][h]))
  => /\ res.parsed.headers = arg.headers
     /\ res.parsed.rows = arg.rows

(***************************************************************************)
(* The remote store, as the statements the code sends read and change it.  *)
(* db is the sequence of tables in creation order (the order of            *)
(* sqlite_master). A table is [name, cols, rows, seq]: cols the declared   *)
(* columns after the surrogate key id, rows the rows in rowid order, each  *)
(* [id, vals] with vals a function from declared column name to value, and *)
(* seq the greatest id AUTOINCREMENT has handed out.                       *)
(*                                                                         *)
(* A request is [sql, params]. sql is the statement with the places where  *)
(* the code interpolates text kept apart: an identifier is [raw, text],    *)
(* raw the name the caller passed and text what was put into the SQL text. *)
(* The server only reads text.                                             *)
(***************************************************************************)
ID == <<"i", "d">>

Ident(raw, text) == [raw |-> raw, text |-> text]

\* an identifier token "..." as the SQL parser reads it
WellQuoted(text) ==
  /\ Len(text) >= 2
  /\ Head(text) = DQ
  /\ text[Len(text)] = DQ
  /\ AllQuotesPaired(StripOuter(text))
NameOf(ident) == Undouble(StripOuter(ident.text))

\* SQLite compares table and column names without regard to ASCII case
SameName(a, b) == toLowerCase(a) = toLowerCase(b)

HasTable(store, name) == \E i \in 1..Len(store) : SameName(store[i].name, name)
TableIndex(store, name) == CHOOSE i \in 1..Len(store) : SameName(store[i].name, name)

HasColumn(table, name) ==
  \E i \in 1..Len(table.cols) : SameName(table.cols[i].name, name)
\* the declared name of the column an identifier resolves to
DeclaredName(table, name) ==
  table.cols[CHOOSE i \in 1..Len(table.cols) : SameName(table.cols[i].name, name)].name

\* x LIKE pattern: % matches any run of characters, _ any one character,
\* any other character itself without regard to ASCII case
RECURSIVE Like(_, _)
Like(text, pattern) ==
  IF pattern = <<>> THEN text = <<>>
  ELSE IF Head(pattern) = "%"
       THEN \/ Like(text, Tail(pattern))
            \/ text # <<>> /\ Like(Tail(text), pattern)
  ELSE /\ text # <<>>
       /\ \/ Head(pattern) = "_"
          \/ toLowerChar(Head(pattern)) = toLowerChar(Head(text))
       /\ Like(Tail(text), Tail(pattern))

\* a stored value LIKE a bound pattern: NULL matches nothing
ValueLike(v, pattern) == v # Null /\ pattern # Null /\ Like(v, pattern)

\* JSON.stringify of a bound parameter: NaN and undefined are sent as null
JsonParam(v) == IF v = NaN \/ v = Undefined THEN Null ELSE v
JsonParams(params) == [i \in 1..Len(params) |-> JsonParam(params[i])]

Ok(rows, store) == [ok |-> TRUE, rows |-> rows, db |-> store]
Fail(store) == [ok |-> FALSE, rows |-> <<>>, db |-> store]

\* names SQLite reserves for internal use
ReservedPrefix == <<"s","q","l","i","t","e","_">>
IsReserved(name) ==
  /\ Len(name) >= Len(ReservedPrefix)
  /\ toLowerCase(SubSeq(name, 1, Len(ReservedPrefix))) = ReservedPrefix

\* whether some two of the names are the same column name
HasDuplicate(names) ==
  \E i, j \in 1..Len(names) : i < j /\ SameName(names[i], names[j])

\* WHERE (c1 LIKE ? OR c2 LIKE ?) AND (...): the groups take their
\* patterns from the parameter list in order
RECURSIVE MatchesWhere(_, _, _, _)
MatchesWhere(table, row, groups, params) ==
  IF groups = <<>> THEN TRUE
  ELSE LET g == Head(groups)
       IN  /\ \E k \in 1..Len(g) :
                ValueLike(row.vals[DeclaredName(table, NameOf(g[k]))], params[k])
           /\ MatchesWhere(table, row, Tail(groups),
                           SubSeq(params, Len(g) + 1, Len(params)))

\* every identifier of a WHERE clause is a token naming a column
WhereResolves(table, groups) ==
  \A i \in 1..Len(groups) : \A k \in 1..Len(groups[i]) :
    WellQuoted(groups[i][k].text) /\ HasColumn(table, NameOf(groups[i][k]))

\* the number of ? placeholders of a WHERE clause
RECURSIVE PlaceholderCount(_)
PlaceholderCount(groups) ==
  IF groups = <<>> THEN 0 ELSE Len(Head(groups)) + PlaceholderCount(Tail(groups))

\* an id as it travels in the parameter list and back: its decimal digit
DigitChars == <<"0","1","2","3","4","5","6","7","8","9">>
IdParam(id) == <<DigitChars[id + 1]>>
IsIdParam(v) == Len(v) = 1 /\ \E d \in 1..10 : DigitChars[d] = v[1]
IdOfParam(v) == (CHOOSE d \in 1..10 : DigitChars[d] = v[1]) - 1

\* the order of characters (their code points) and of values: NULL sorts
\* first, text is compared character by character
CharOrder == <<"\t", NL, CR, SP, DQ, "%", COMMA>> \o DigitChars \o Uppers
             \o <<"_">> \o Lowers
CharCode(c) == CHOOSE i \in 1..Len(CharOrder) : CharOrder[i] = c
RECURSIVE TextLess(_, _)
TextLess(a, b) ==
  IF b = <<>> THEN FALSE
  ELSE IF a = <<>> THEN TRUE
  ELSE IF Head(a) = Head(b) THEN TextLess(Tail(a), Tail(b))
  ELSE CharCode(Head(a)) < CharCode(Head(b))
ValueLess(a, b) ==
  IF b = Null THEN FALSE
  ELSE IF a = Null THEN TRUE
  ELSE TextLess(a, b)

\* ORDER BY parts: row a sorts strictly before row b
RECURSIVE OrderedBefore(_, _, _, _)
OrderedBefore(table, parts, a, b) ==
  IF parts = <<>> THEN FALSE
  ELSE LET col == DeclaredName(table, NameOf(Head(parts).col))
           x == a.vals[col]
           y == b.vals[col]
           asc == Head(parts).dir = <<"A","S","C">>
       IN  IF x = y THEN OrderedBefore(table, Tail(parts), a, b)
           ELSE IF asc THEN ValueLess(x, y) ELSE ValueLess(y, x)

\* a stable insertion sort: rows that compare equal keep their rowid order
RECURSIVE InsertSorted(_, _, _, _)
InsertSorted(table, parts, sorted, row) ==
  IF sorted = <<>> THEN <<row>>
  ELSE IF OrderedBefore(table, parts, row, Head(sorted))
       THEN <<row>> \o sorted
       ELSE <<Head(sorted)>> \o InsertSorted(table, parts, Tail(sorted), row)
RECURSIVE SortRows(_, _, _)
SortRows(table, parts, rows) ==
  IF rows = <<>> THEN <<>>
  ELSE InsertSorted(table, parts,
                    SortRows(table, parts, SubSeq(rows, 1, Len(rows) - 1)),
                    rows[Len(rows)])

Reverse(s) == [i \in 1..Len(s) |-> s[Len(s) + 1 - i]]

\* LIMIT size OFFSET offset
Page(rows, size, offset) ==
  SubSeq(rows, offset + 1, IF offset + size < Len(rows) THEN offset + size ELSE Len(rows))

\* ORDER BY parts name columns and a direction keyword
OrderResolves(table, parts) ==
  \A i \in 1..Len(parts) :
    /\ WellQuoted(parts[i].col.text)
    /\ HasColumn(table, NameOf(parts[i].col))
    /\ parts[i].dir \in {<<"A","S","C">>, <<"D","E","S","C">>}

ReplaceAt(s, i, x) == [s EXCEPT ![i] = x]
RemoveAt(s, i) == SubSeq(s, 1, i - 1) \o SubSeq(s, i + 1, Len(s))

MaxOf(a, b) == IF a > b THEN a ELSE b
\* the next id AUTOINCREMENT assigns: above every id ever used
NextIdOf(table) == table.seq + 1

\* the remote store executes one statement
Execute(store, req) ==
  LET q == req.sql
      params == req.params
  IN
  IF q.op = "tables" THEN
    \* SELECT name FROM sqlite_master WHERE type="table"
    \*   AND name NOT LIKE "sqlite_%" AND name NOT LIKE "_cf_%"
    LET shown(t) == /\ ~Like(t.name, <<"s","q","l","i","t","e","_","%">>)
                    /\ ~Like(t.name, <<"_","c","f","_","%">>)
        kept == SelectSeq(store, shown)
    IN  Ok([i \in 1..Len(kept) |-> [name |-> kept[i].name]], store)
  ELSE IF ~WellQuoted(q.table.text) THEN Fail(store)
  ELSE
  LET name == NameOf(q.table) IN
  IF q.op = "pragma" THEN
    \* PRAGMA table_info("t"): no row for a table that does not exist
    IF ~HasTable(store, name) THEN Ok(<<>>, store)
    ELSE LET t == store[TableIndex(store, name)]
         IN  Ok(<<[name |-> ID, type |-> <<"I","N","T","E","G","E","R">>, pk |-> 1]>>
                \o [i \in 1..Len(t.cols) |->
                      [name |-> t.cols[i].name, type |-> t.cols[i].type, pk |-> 0]],
                store)
  ELSE IF q.op = "drop" THEN
    \* DROP TABLE IF EXISTS "t"
    IF HasTable(store, name)
    THEN Ok(<<>>, RemoveAt(store, TableIndex(store, name)))
    ELSE Ok(<<>>, store)
  ELSE IF q.op = "create" THEN
    \* CREATE TABLE "t" (id INTEGER PRIMARY KEY AUTOINCREMENT, "c" TYPE, ...)
    IF \/ HasTable(store, name)
       \/ IsReserved(name)
       \/ q.cols = <<>>
       \/ \E i \in 1..Len(q.cols) : ~WellQuoted(q.cols[i].name.text)
    THEN Fail(store)
    ELSE LET names == [i \in 1..Len(q.cols) |-> NameOf(q.cols[i].name)]
         IN  IF HasDuplicate(<<ID>> \o names) THEN Fail(store)
             ELSE Ok(<<>>, Append(store,
                    [name |-> name,
                     cols |-> [i \in 1..Len(q.cols) |->
                                 [name |-> names[i], type |-> q.cols[i].type]],
                     rows |-> <<>>,
                     seq |-> 0]))
  ELSE IF ~HasTable(store, name) THEN Fail(store)
  ELSE
  LET ti == TableIndex(store, name)
      t == store[ti]
      put(rows) == ReplaceAt(store, ti, [t EXCEPT !.rows = rows])
  IN
  IF q.op = "insert" THEN
    \* INSERT INTO "t" ("c", ...) VALUES (?, ...)
    IF \/ q.cols = <<>>
       \/ Len(params) # Len(q.cols)
       \/ \E i \in 1..Len(q.cols) :
            ~WellQuoted(q.cols[i].text) \/ ~HasColumn(t, NameOf(q.cols[i]))
    THEN Fail(store)
    ELSE LET names == [i \in 1..Len(q.cols) |-> DeclaredName(t, NameOf(q.cols[i]))]
             given(c) == \E i \in 1..Len(names) : names[i] = c
             \* a column named twice takes its last value
             valueOf(c) == params[CHOOSE i \in 1..Len(names) :
                                    /\ names[i] = c
                                    /\ \A j \in (i + 1)..Len(names) : names[j] # c]
             row == [id |-> NextIdOf(t),
                     vals |-> [c \in {t.cols[i].name : i \in 1..Len(t.cols)} |->
                                 IF given(c) THEN valueOf(c) ELSE Null]]
         IN  IF HasDuplicate(names) THEN Fail(store)
             ELSE Ok(<<>>, ReplaceAt(store, ti,
                      [t EXCEPT !.rows = Append(t.rows, row), !.seq = row.id]))
  ELSE IF q.op = "count" THEN
    \* SELECT COUNT(*) as total FROM "t" [WHERE ...]
    IF ~WhereResolves(t, q.where) \/ Len(params) # PlaceholderCount(q.where)
    THEN Fail(store)
    ELSE LET hit(r) == MatchesWhere(t, r, q.where, params)
         IN  Ok(<<[total |-> Len(SelectSeq(t.rows, hit))]>>, store)
  ELSE IF q.op = "select" THEN
    \* SELECT * FROM "t" [WHERE ...] ORDER BY ... [LIMIT n OFFSET m]
    IF \/ ~WhereResolves(t, q.where)
       \/ Len(params) # PlaceholderCount(q.where)
       \/ ~OrderResolves(t, q.order)
    THEN Fail(store)
    ELSE LET hit(r) == MatchesWhere(t, r, q.where, params)
             found == SelectSeq(t.rows, hit)
             \* without sorters the code writes ORDER BY id DESC
             sorted == IF q.order = <<>> THEN Reverse(found)
                       ELSE SortRows(t, q.order, found)
         IN  Ok(IF q.limit.on THEN Page(sorted, q.limit.size, q.limit.offset)
                ELSE sorted,
                store)
  ELSE IF q.op = "selectById" THEN
    \* SELECT * FROM "t" WHERE id = ?
    LET hit(r) == IsIdParam(params[1]) /\ r.id = IdOfParam(params[1])
    IN  Ok(SelectSeq(t.rows, hit), store)
  ELSE IF q.op = "selectLast" THEN
    \* SELECT * FROM "t" ORDER BY id DESC LIMIT 1
    Ok(IF t.rows = <<>> THEN <<>> ELSE <<t.rows[Len(t.rows)]>>, store)
  ELSE IF q.op = "update" THEN
    \* UPDATE "t" SET "c" = ?, ... WHERE id = ?
    IF \/ q.set = <<>>
       \/ Len(params) # Len(q.set) + 1
       \/ \E i \in 1..Len(q.set) :
            ~WellQuoted(q.set[i].text) \/ ~HasColumn(t, NameOf(q.set[i]))
    THEN Fail(store)
    ELSE LET names == [i \in 1..Len(q.set) |-> DeclaredName(t, NameOf(q.set[i]))]
             idp == params[Len(params)]
             target(r) == IsIdParam(idp) /\ r.id = IdOfParam(idp)
             \* a column set twice keeps the last assignment
             newVals(r) ==
               [c \in DOMAIN r.vals |->
                  IF \E i \in 1..Len(names) : names[i] = c
                  THEN params[CHOOSE i \in 1..Len(names) :
                                /\ names[i] = c
                                /\ \A j \in (i + 1)..Len(names) : names[j] # c]
                  ELSE r.vals[c]]
         IN  Ok(<<>>, put([i \in 1..Len(t.rows) |->
                            IF target(t.rows[i])
                            THEN [t.rows[i] EXCEPT !.vals = newVals(t.rows[i])]
                            ELSE t.rows[i]]))
  ELSE IF q.op = "delete" THEN
    \* DELETE FROM "t" [WHERE id = ? | WHERE id IN (?, ...)]
    IF q.where = "all" THEN Ok(<<>>, put(<<>>))
    ELSE LET gone(r) == \E i \in 1..Len(params) :
                          IsIdParam(params[i]) /\ r.id = IdOfParam(params[i])
             stays(r) == ~gone(r)
         IN  Ok(<<>>, put(SelectSeq(t.rows, stays)))
  ELSE Fail(store)

(***************************************************************************)
(* Remote query executor and schema accessor (sqlDatabase.ts). Every       *)
(* operation below returns [ok, ..., db, reqs]: whether it completed or    *)
(* threw, its result, the store after it and the requests it sent.         *)
(***************************************************************************)
\* The body of a 2xx answer, as response.json() yields it. A JSON value is
\* [kind, items]: an array with its items, or null, false, true (any truthy
\* scalar), or absent (a key the object does not have). An object is
\* [kind |-> "object", results, data, rows, other]: the values under the
\* three wrapper keys and whether it has any key besides them.
JArray(items) == [kind |-> "array", items |-> items]
JAbsent == [kind |-> "absent", items |-> <<>>]
JNull == [kind |-> "null", items |-> <<>>]
JFalse == [kind |-> "false", items |-> <<>>]
JTrue == [kind |-> "true", items |-> <<>>]
JObject(results, data, rows, other) ==
  [kind |-> "object", results |-> results, data |-> data, rows |-> rows,
   other |-> other]

\* JavaScript truthiness: every array and object is truthy, the empty ones too
Truthy(v) == v.kind \in {"true", "array", "object"}
\* a || b
OrElse(a, b) == IF Truthy(a) THEN a ELSE b
\* Object.keys(data).length
KeyCount(data) ==
  (IF data.results.kind # "absent" THEN 1 ELSE 0)
  + (IF data.data.kind # "absent" THEN 1 ELSE 0)
  + (IF data.rows.kind # "absent" THEN 1 ELSE 0)
  + (IF data.other THEN 1 ELSE 0)

\* finalData without the one-element wrapping of a non-array value
normalizeUnwrapped(data) ==
  IF data.kind = "array" THEN data
  ELSE IF data.kind = "object"
  THEN (IF data.results.kind \in {"true", "array", "object"} THEN data.results
        ELSE IF data.data.kind \in {"true", "array", "object"} THEN data.data
        ELSE IF data.rows.kind \in {"true", "array", "object"} THEN data.rows
        ELSE [kind |-> "array", items |-> <<>>])
  ELSE [kind |-> "array", items |-> <<>>]

\* remoteExecute, lines 26-38: finalData for the parsed body data
normalize(data) ==
  IF data.kind = "array" THEN data
  ELSE IF data.kind = "object"
  THEN LET wrapped(finalData) ==
             IF finalData.kind # "array" /\ KeyCount(data) > 0
             THEN JArray(<<data>>)
             ELSE finalData
       IN  wrapped(OrElse(data.results,
                   OrElse(data.data,
                          IF Truthy(data.rows) THEN data.rows ELSE JArray(<<>>))))
  ELSE JArray(<<>>)

\* remoteExecute(sql, params): one POST of JSON.stringify({sql, params});
\* a non-2xx answer is thrown, the body of a 2xx answer is normalized (the
\* store answers with the bare array of rows)
remoteExecute(store, sql, params) ==
  LET sent(req) ==
        LET answer(r) == [ok |-> r.ok, rows |-> normalize(JArray(r.rows)).items,
                          db |-> r.db, reqs |-> <<req>>]
        IN  answer(Execute(store, req))
  IN  sent([sql |-> sql, params |-> JsonParams(params)])

\* remoteExecute when the endpoint answers non-2xx: the statement was not
\* run and 'DB Error: status - text' is thrown
remoteExecuteRefused(store, sql, params) ==
  [ok |-> FALSE, rows |-> <<>>, db |-> store,
   reqs |-> <<[sql |-> sql, params |-> JsonParams(params)]>>]

\* the bodies a worker may answer with: arrays of up to two rows, objects
\* with any combination of values under the wrapper keys, null and scalars
ResponseRows ==
  {<<>>, <<[name |-> <<"t">>]>>, <<[name |-> <<"t">>], [name |-> <<"u">>]>>}
KeyValues == {JAbsent, JNull, JFalse, JTrue} \cup {JArray(r) : r \in ResponseRows}
Responses ==
  {JArray(r) : r \in ResponseRows}
  \cup {JNull, JTrue}
  \cup {JObject(a, b, c, o) : a \in KeyValues, b \in KeyValues, c \in KeyValues,
                              o \in BOOLEAN}

InitResponse ==
  /\ arg \in Responses
  /\ res = [done |-> FALSE, out |-> <<>>]
  /\ db = <<>>
  /\ ret = [op |-> "none", ok |-> TRUE, in |-> <<>>, out |-> <<>>, before |-> <<>>]
  /\ reqs = <<>>

DoNormalize ==
  /\ ~res.done
  /\ res' = [done |-> TRUE, out |-> normalize(arg)]
  /\ UNCHANGED <<arg, db, ret, reqs>>

\* getTableNames, lines 72-78, on what remoteExecute returned: the guard
\* against a value that is not an array, else the name of each element
namesOf(results) ==
  IF results.kind # "array"
  THEN [failSoft |-> TRUE, names |-> <<>>]
  ELSE [failSoft |-> FALSE,
        names |-> [i \in 1..Len(results.items) |->
                     IF "name" \in DOMAIN results.items[i]
                     THEN results.items[i].name ELSE Undefined]]

DoGetTableNames ==
  /\ ret.op = "none"
  /\ ret' = [op |-> "getTableNames", ok |-> TRUE, in |-> arg,
             out |-> namesOf(normalize(arg)), before |-> <<>>]
  /\ UNCHANGED <<arg, res, db, reqs>>

NextResponse == DoNormalize \/ DoGetTableNames

SpecResponse == InitResponse /\ [][NextResponse]_vars

\* the wrapper keys the object has
ExposedKeys(data) ==
  {k \in {"results", "data", "rows"} : data[k].kind # "absent"}

\* C12: a bare array is returned as is; an object exposing one of the
\* wrapper keys results, data or rows yields the sequence under that key;
\* a non-empty object exposing none of them is returned as a one-element
\* sequence containing that object.
NormalizeAsStated ==
  res.done =>
    /\ arg.kind = "array" => res.out = arg
    /\ arg.kind = "object" =>
         /\ \A k \in {"results", "data", "rows"} :
              (ExposedKeys(arg) = {k} /\ arg[k].kind = "array")
                => res.out = arg[k]
         /\ (ExposedKeys(arg) = {} /\ KeyCount(arg) > 0)
              => res.out = JArray(<<arg>>)

\* the name put into the SQL text as it is
safeNameUnquoted(name) == name
\* `"${name.replace(/"/g, '""')}"` as sqlDatabase.ts and ImportModal.tsx inline it
safeName(name) == <<DQ>> \o doubleQuotes(name) \o <<DQ>>

\* getTableColumns(tableName)
getTableColumns(store, tableName) ==
  remoteExecute(store,
                [op |-> "pragma", table |-> Ident(tableName, safeName(tableName))],
                <<>>)

\* getTableNames()
getTableNames(store) ==
  LET names(r) == [ok |-> r.ok,
                   names |-> [i \in 1..Len(r.rows) |-> r.rows[i].name],
                   db |-> r.db, reqs |-> r.reqs]
  IN  names(remoteExecute(store, [op |-> "tables"], <<>>))

\* dropTable(tableName)
dropTable(store, tableName) ==
  remoteExecute(store,
                [op |-> "drop", table |-> Ident(tableName, safeName(tableName))],
                <<>>)

\* createTable without the renaming of a user column named id
createTableKeepId(store, tableName, columns) ==
  remoteExecute(store,
    [op |-> "create",
     table |-> Ident(tableName, safeName(tableName)),
     cols |-> [i \in 1..Len(columns) |->
                 [name |-> Ident(columns[i].name, safeName(columns[i].name)),
                  type |-> columns[i].type]]],
    <<>>)
\* createTable(tableName, columns)
createTable(store, tableName, columns) ==
  LET processedCols ==
        [i \in 1..Len(columns) |->
           IF toLowerCase(trim(columns[i].name)) = ID
           THEN [columns[i] EXCEPT !.name = <<"o","r","i","g","i","n","a","l","_","i","d">>]
           ELSE columns[i]]
  IN  remoteExecute(store,
        [op |-> "create",
         table |-> Ident(tableName, safeName(tableName)),
         cols |-> [i \in 1..Len(processedCols) |->
                     [name |-> Ident(processedCols[i].name, safeName(processedCols[i].name)),
                      type |-> processedCols[i].type]]],
        <<>>)

\* the for loop of createTableFromCSV: one INSERT per row, stopping at the
\* first that fails
RECURSIVE insertCsvRows(_, _, _, _, _)
insertCsvRows(store, table, safeHeaderNames, headers, rows) ==
  IF rows = <<>> THEN [ok |-> TRUE, db |-> store, reqs |-> <<>>]
  ELSE LET vals == [i \in 1..Len(headers) |-> Field(Head(rows), headers[i])]
           inserted(r) ==
             IF ~r.ok THEN [ok |-> FALSE, db |-> r.db, reqs |-> r.reqs]
             ELSE LET after(rest) ==
                        [ok |-> rest.ok, db |-> rest.db, reqs |-> r.reqs \o rest.reqs]
                  IN  after(insertCsvRows(r.db, table, safeHeaderNames, headers, Tail(rows)))
       IN  inserted(remoteExecute(store,
                      [op |-> "insert", table |-> table, cols |-> safeHeaderNames], vals))

\* createTableFromCSV inserting the rows last to first
createTableFromCSVReversed(store, tableName, headers, rows) ==
  LET safeTableName == Ident(tableName, safeName(tableName))
      processedHeaders ==
        [i \in 1..Len(headers) |->
           IF toLowerCase(trim(headers[i])) = ID
           THEN <<"i","d","_","o","r","i","g","i","n","a","l">>
           ELSE trim(headers[i])]
      safeHeaderNames ==
        [i \in 1..Len(headers) |-> Ident(processedHeaders[i], safeName(processedHeaders[i]))]
      created(c) ==
        IF ~c.ok THEN [ok |-> FALSE, db |-> c.db, reqs |-> c.reqs]
        ELSE LET filled(ins) == [ok |-> ins.ok, db |-> ins.db, reqs |-> c.reqs \o ins.reqs]
             IN  filled(insertCsvRows(c.db, safeTableName, safeHeaderNames, headers,
                                      Reverse(rows)))
  IN  created(remoteExecute(store,
                [op |-> "create", table |-> safeTableName,
                 cols |-> [i \in 1..Len(headers) |->
                             [name |-> safeHeaderNames[i], type |-> <<"T","E","X","T">>]]],
                <<>>))
\* createTableFromCSV(tableName, headers, rows)
createTableFromCSV(store, tableName, headers, rows) ==
  LET safeTableName == Ident(tableName, safeName(tableName))
      processedHeaders ==
        [i \in 1..Len(headers) |->
           IF toLowerCase(trim(headers[i])) = ID
           THEN <<"i","d","_","o","r","i","g","i","n","a","l">>
           ELSE trim(headers[i])]
      safeHeaderNames ==
        [i \in 1..Len(headers) |-> Ident(processedHeaders[i], safeName(processedHeaders[i]))]
      created(c) ==
        IF ~c.ok THEN [ok |-> FALSE, db |-> c.db, reqs |-> c.reqs]
        ELSE LET filled(ins) == [ok |-> ins.ok, db |-> ins.db, reqs |-> c.reqs \o ins.reqs]
             IN  filled(insertCsvRows(c.db, safeTableName, safeHeaderNames, headers, rows))
  IN  created(remoteExecute(store,
                [op |-> "create", table |-> safeTableName,
                 cols |-> [i \in 1..Len(headers) |->
                             [name |-> safeHeaderNames[i], type |-> <<"T","E","X","T">>]]],
                <<>>))

(***************************************************************************)
(* Data provider (dataProvider.ts)                                         *)
(***************************************************************************)
QField == <<"q">>

\* the searchable columns of getList: the declared type, upper-cased,
\* includes TEXT, CHAR or CLOB
IsTextLike(type) ==
  LET up == toUpperCase(type)
  IN  \/ includes(up, <<"T","E","X","T">>)
      \/ includes(up, <<"C","H","A","R">>)
      \/ includes(up, <<"C","L","O","B">>)

\* the filter loop with an OR group added even when no column is searchable
RECURSIVE buildWhereEmptyGroup(_, _, _)
buildWhereEmptyGroup(store, resource, filters) ==
  IF filters = <<>>
  THEN [ok |-> TRUE, groups |-> <<>>, params |-> <<>>, db |-> store, reqs |-> <<>>]
  ELSE
    LET filter == Head(filters)
    IN  IF filter.field = <<"q">> /\ filter.value # <<>>
        THEN
          LET isSearchable(col) == IsTextLike(col.type)
              pattern == <<"%">> \o filter.value \o <<"%">>
              columns(tc) ==
                LET found == SelectSeq(tc.rows, isSearchable)
                    searchableCols == [i \in 1..Len(found) |-> found[i].name]
                    group == [i \in 1..Len(searchableCols) |->
                                Ident(searchableCols[i], quote(searchableCols[i]))]
                    more(rest) ==
                      [ok |-> rest.ok,
                       groups |-> <<group>> \o rest.groups,
                       params |-> [i \in 1..Len(searchableCols) |-> pattern]
                                  \o rest.params,
                       db |-> rest.db,
                       reqs |-> tc.reqs \o rest.reqs]
                IN  IF ~tc.ok
                    THEN [ok |-> FALSE, groups |-> <<>>, params |-> <<>>,
                          db |-> tc.db, reqs |-> tc.reqs]
                    ELSE more(buildWhereEmptyGroup(tc.db, resource, Tail(filters)))
          IN  columns(getTableColumns(store, resource))
        ELSE buildWhereEmptyGroup(store, resource, Tail(filters))

\* the filter loop of getList: each search filter with a non-empty value
\* fetches the columns and adds one OR group over the searchable ones
RECURSIVE buildWhere(_, _, _)
buildWhere(store, resource, filters) ==
  IF filters = <<>>
  THEN [ok |-> TRUE, groups |-> <<>>, params |-> <<>>, db |-> store, reqs |-> <<>>]
  ELSE
    LET filter == Head(filters)
    IN  IF filter.field = QField /\ filter.value # <<>>
        THEN
          LET isSearchable(col) == IsTextLike(col.type)
              pattern == <<"%">> \o filter.value \o <<"%">>
              columns(tc) ==
                LET found == SelectSeq(tc.rows, isSearchable)
                    searchableCols == [i \in 1..Len(found) |-> found[i].name]
                    group == [i \in 1..Len(searchableCols) |->
                                Ident(searchableCols[i], quote(searchableCols[i]))]
                    more(rest) ==
                      [ok |-> rest.ok,
                       groups |-> (IF searchableCols # <<>> THEN <<group>> ELSE <<>>)
                                  \o rest.groups,
                       params |-> [i \in 1..Len(searchableCols) |-> pattern]
                                  \o rest.params,
                       db |-> rest.db,
                       reqs |-> tc.reqs \o rest.reqs]
                IN  IF ~tc.ok
                    THEN [ok |-> FALSE, groups |-> <<>>, params |-> <<>>,
                          db |-> tc.db, reqs |-> tc.reqs]
                    ELSE more(buildWhere(tc.db, resource, Tail(filters)))
          IN  columns(getTableColumns(store, resource))
        ELSE buildWhere(store, resource, Tail(filters))

NoPagination == [on |-> FALSE, currentPage |-> 0, pageSize |-> 0]
NoLimit == [on |-> FALSE, size |-> 0, offset |-> 0]

\* getList with the total taken from the page that was fetched
getListPageTotal(store, resource, filters, sorters, pagination) ==
  LET safeResource == Ident(resource, quote(resource))
      order == [i \in 1..Len(sorters) |->
                  [col |-> Ident(sorters[i].field, quote(sorters[i].field)),
                   dir |-> toUpperCase(sorters[i].order)]]
      currentPage == IF pagination.currentPage = 0 THEN 1
                     ELSE pagination.currentPage
      pageSize == IF pagination.pageSize = 0 THEN 10 ELSE pagination.pageSize
      limit == IF pagination.on
               THEN [on |-> TRUE, size |-> pageSize,
                     offset |-> (currentPage - 1) * pageSize]
               ELSE NoLimit
      filtered(w) ==
        LET counted(countResult) ==
              LET total == IF countResult.rows = <<>> THEN 0
                           ELSE countResult.rows[1].total
                  selected(data) ==
                    [ok |-> data.ok,
                     data |-> data.rows,
                     total |-> Len(data.rows),
                     db |-> data.db,
                     reqs |-> w.reqs \o countResult.reqs \o data.reqs]
              IN  IF ~countResult.ok
                  THEN [ok |-> FALSE, data |-> <<>>, total |-> 0,
                        db |-> countResult.db, reqs |-> w.reqs \o countResult.reqs]
                  ELSE selected(remoteExecute(countResult.db,
                                  [op |-> "select", table |-> safeResource,
                                   where |-> w.groups, order |-> order, limit |-> limit],
                                  w.params))
        IN  IF ~w.ok
            THEN [ok |-> FALSE, data |-> <<>>, total |-> 0, db |-> w.db, reqs |-> w.reqs]
            ELSE counted(remoteExecute(w.db,
                           [op |-> "count", table |-> safeResource, where |-> w.groups],
                           w.params))
  IN  filtered(buildWhere(store, resource, filters))
\* getList with OFFSET currentPage * pageSize
getListOffsetByPage(store, resource, filters, sorters, pagination) ==
  LET safeResource == Ident(resource, quote(resource))
      order == [i \in 1..Len(sorters) |->
                  [col |-> Ident(sorters[i].field, quote(sorters[i].field)),
                   dir |-> toUpperCase(sorters[i].order)]]
      currentPage == IF pagination.currentPage = 0 THEN 1
                     ELSE pagination.currentPage
      pageSize == IF pagination.pageSize = 0 THEN 10 ELSE pagination.pageSize
      limit == IF pagination.on
               THEN [on |-> TRUE, size |-> pageSize,
                     offset |-> currentPage * pageSize]
               ELSE NoLimit
      filtered(w) ==
        LET counted(countResult) ==
              LET total == IF countResult.rows = <<>> THEN 0
                           ELSE countResult.rows[1].total
                  selected(data) ==
                    [ok |-> data.ok,
                     data |-> data.rows,
                     total |-> total,
                     db |-> data.db,
                     reqs |-> w.reqs \o countResult.reqs \o data.reqs]
              IN  IF ~countResult.ok
                  THEN [ok |-> FALSE, data |-> <<>>, total |-> 0,
                        db |-> countResult.db, reqs |-> w.reqs \o countResult.reqs]
                  ELSE selected(remoteExecute(countResult.db,
                                  [op |-> "select", table |-> safeResource,
                                   where |-> w.groups, order |-> order, limit |-> limit],
                                  w.params))
        IN  IF ~w.ok
            THEN [ok |-> FALSE, data |-> <<>>, total |-> 0, db |-> w.db, reqs |-> w.reqs]
            ELSE counted(remoteExecute(w.db,
                           [op |-> "count", table |-> safeResource, where |-> w.groups],
                           w.params))
  IN  filtered(buildWhere(store, resource, filters))
\* getList({resource, filters, sorters, pagination}); a pagination field
\* that is missing or 0 is falsy and takes its default
getList(store, resource, filters, sorters, pagination) ==
  LET safeResource == Ident(resource, quote(resource))
      order == [i \in 1..Len(sorters) |->
                  [col |-> Ident(sorters[i].field, quote(sorters[i].field)),
                   dir |-> toUpperCase(sorters[i].order)]]
      currentPage == IF pagination.currentPage = 0 THEN 1
                     ELSE pagination.currentPage
      pageSize == IF pagination.pageSize = 0 THEN 10 ELSE pagination.pageSize
      limit == IF pagination.on
               THEN [on |-> TRUE, size |-> pageSize,
                     offset |-> (currentPage - 1) * pageSize]
               ELSE NoLimit
      filtered(w) ==
        LET counted(countResult) ==
              LET total == IF countResult.rows = <<>> THEN 0
                           ELSE countResult.rows[1].total
                  selected(data) ==
                    [ok |-> data.ok,
                     data |-> data.rows,
                     total |-> total,
                     db |-> data.db,
                     reqs |-> w.reqs \o countResult.reqs \o data.reqs]
              IN  IF ~countResult.ok
                  THEN [ok |-> FALSE, data |-> <<>>, total |-> 0,
                        db |-> countResult.db, reqs |-> w.reqs \o countResult.reqs]
                  ELSE selected(remoteExecute(countResult.db,
                                  [op |-> "select", table |-> safeResource,
                                   where |-> w.groups, order |-> order, limit |-> limit],
                                  w.params))
        IN  IF ~w.ok
            THEN [ok |-> FALSE, data |-> <<>>, total |-> 0, db |-> w.db, reqs |-> w.reqs]
            ELSE counted(remoteExecute(w.db,
                           [op |-> "count", table |-> safeResource, where |-> w.groups],
                           w.params))
  IN  filtered(buildWhere(store, resource, filters))

\* data[0]: the first row, nothing when there is none
FirstOf(rows) == IF rows = <<>> THEN <<>> ELSE <<rows[1]>>

\* getOne without the not-found error
getOneNoThrow(store, resource, id) ==
  LET found(data) == [ok |-> data.ok,
                      data |-> FirstOf(data.rows),
                      db |-> data.db, reqs |-> data.reqs]
  IN  found(remoteExecute(store,
              [op |-> "selectById", table |-> Ident(resource, quote(resource))],
              <<IdParam(id)>>))
\* getOne({resource, id}): throws when no row comes back, else returns
\* data[0]: data holds the record returned, nothing when it threw
getOne(store, resource, id) ==
  LET found(data) == [ok |-> data.ok /\ data.rows # <<>>,
                      data |-> FirstOf(data.rows),
                      db |-> data.db, reqs |-> data.reqs]
  IN  found(remoteExecute(store,
              [op |-> "selectById", table |-> Ident(resource, quote(resource))],
              <<IdParam(id)>>))

\* the INSERT of create with NULL bound in place of every value
createInsertNulls(store, resource, variables) ==
  LET safeResource == Ident(resource, quote(resource))
      cols == [i \in 1..Len(variables) |->
                 Ident(variables[i].key, quote(variables[i].key))]
      vals == [i \in 1..Len(variables) |-> Null]
  IN  remoteExecute(store,
        [op |-> "insert", table |-> safeResource, cols |-> cols], vals)
\* create, first request: INSERT INTO resource (keys) VALUES (?, ...);
\* variables is the list of [key, value] pairs of the object, in insertion
\* order
createInsert(store, resource, variables) ==
  LET safeResource == Ident(resource, quote(resource))
      cols == [i \in 1..Len(variables) |->
                 Ident(variables[i].key, quote(variables[i].key))]
      vals == [i \in 1..Len(variables) |-> variables[i].value]
  IN  remoteExecute(store,
        [op |-> "insert", table |-> safeResource, cols |-> cols], vals)

\* create, second request: SELECT * FROM resource ORDER BY id DESC LIMIT 1
createSelect(store, resource) ==
  remoteExecute(store,
    [op |-> "selectLast", table |-> Ident(resource, quote(resource))], <<>>)

\* create({resource, variables}) with nothing happening between its two
\* requests; it returns result[0]
create(store, resource, variables) ==
  LET inserted(ins) ==
        IF ~ins.ok THEN [ok |-> FALSE, data |-> <<>>, db |-> ins.db, reqs |-> ins.reqs]
        ELSE LET last(result) == [ok |-> result.ok, data |-> FirstOf(result.rows),
                                  db |-> result.db, reqs |-> ins.reqs \o result.reqs]
             IN  last(createSelect(ins.db, resource))
  IN  inserted(createInsert(store, resource, variables))

\* update with the id bound first, before the values of the SET clause
updateIdFirst(store, resource, id, variables) ==
  LET safeResource == Ident(resource, quote(resource))
      set == [i \in 1..Len(variables) |->
                Ident(variables[i].key, quote(variables[i].key))]
      vals == <<IdParam(id)>> \o [i \in 1..Len(variables) |-> variables[i].value]
      updated(upd) ==
        IF ~upd.ok THEN [ok |-> FALSE, data |-> <<>>, db |-> upd.db, reqs |-> upd.reqs]
        ELSE LET read(result) == [ok |-> result.ok, data |-> result.rows,
                                  db |-> result.db, reqs |-> upd.reqs \o result.reqs]
             IN  read(remoteExecute(upd.db,
                        [op |-> "selectById", table |-> safeResource],
                        <<IdParam(id)>>))
  IN  updated(remoteExecute(store,
                [op |-> "update", table |-> safeResource, set |-> set], vals))
\* update({resource, id, variables})
update(store, resource, id, variables) ==
  LET safeResource == Ident(resource, quote(resource))
      set == [i \in 1..Len(variables) |->
                Ident(variables[i].key, quote(variables[i].key))]
      vals == [i \in 1..Len(variables) |-> variables[i].value] \o <<IdParam(id)>>
      updated(upd) ==
        IF ~upd.ok THEN [ok |-> FALSE, data |-> <<>>, db |-> upd.db, reqs |-> upd.reqs]
        ELSE LET read(result) == [ok |-> result.ok, data |-> result.rows,
                                  db |-> result.db, reqs |-> upd.reqs \o result.reqs]
             IN  read(remoteExecute(upd.db,
                        [op |-> "selectById", table |-> safeResource],
                        <<IdParam(id)>>))
  IN  updated(remoteExecute(store,
                [op |-> "update", table |-> safeResource, set |-> set], vals))

\* deleteOne({resource, id})
deleteOne(store, resource, id) ==
  LET deleted(r) == [ok |-> r.ok, data |-> <<id>>, db |-> r.db, reqs |-> r.reqs]
  IN  deleted(remoteExecute(store,
                [op |-> "delete", table |-> Ident(resource, quote(resource)),
                 where |-> "id"],
                <<IdParam(id)>>))

\* deleteMany that deletes the first of the ids only
deleteManyFirstOnly(store, resource, ids) ==
  LET deleted(r) == [ok |-> r.ok, data |-> ids, db |-> r.db, reqs |-> r.reqs]
  IN  deleted(remoteExecute(store,
                [op |-> "delete", table |-> Ident(resource, quote(resource)),
                 where |-> "id"],
                [i \in 1..(IF ids = <<>> THEN 0 ELSE 1) |-> IdParam(ids[i])]))
\* deleteMany({resource, ids})
deleteMany(store, resource, ids) ==
  LET deleted(r) == [ok |-> r.ok, data |-> ids, db |-> r.db, reqs |-> r.reqs]
  IN  deleted(remoteExecute(store,
                [op |-> "delete", table |-> Ident(resource, quote(resource)),
                 where |-> "in"],
                [i \in 1..Len(ids) |-> IdParam(ids[i])]))

(***************************************************************************)
(* Create-table flow (AddTableModal), table deletion (App) and import      *)
(* (ImportModal)                                                           *)
(***************************************************************************)
IsLetter(c) == IsLower(c) \/ IsUpper(c)
IsDigit(c) == \E d \in 1..10 : DigitChars[d] = c
\* /^[a-zA-Z_][a-zA-Z0-9_]*$/.test(s)
IsIdentifier(s) ==
  /\ s # <<>>
  /\ IsLetter(s[1]) \/ s[1] = "_"
  /\ \A i \in 2..Len(s) : IsLetter(s[i]) \/ IsDigit(s[i]) \/ s[i] = "_"

NoError == "ok"

\* validateTableName without the look-up of the existing tables
validateTableNameUnlisted(store, name) ==
  LET trimmed == trim(name)
  IN  IF trimmed = <<>>
      THEN [error |-> "Table name is required", db |-> store, reqs |-> <<>>]
      ELSE IF ~IsIdentifier(trimmed)
      THEN [error |-> "Invalid name (use letters/numbers/underscores only)",
            db |-> store, reqs |-> <<>>]
      ELSE [error |-> NoError, db |-> store, reqs |-> <<>>]
\* validateTableName(name): the message to show, or NoError
validateTableName(store, name) ==
  LET trimmed == trim(name)
  IN  IF trimmed = <<>>
      THEN [error |-> "Table name is required", db |-> store, reqs |-> <<>>]
      ELSE IF ~IsIdentifier(trimmed)
      THEN [error |-> "Invalid name (use letters/numbers/underscores only)",
            db |-> store, reqs |-> <<>>]
      ELSE LET listed(tables) ==
                 IF \E i \in 1..Len(tables.names) :
                      toLowerCase(tables.names[i]) = toLowerCase(trimmed)
                 THEN [error |-> "Table already exists",
                       db |-> tables.db, reqs |-> tables.reqs]
                 ELSE [error |-> NoError, db |-> tables.db, reqs |-> tables.reqs]
           IN  listed(getTableNames(store))

\* handleManualCreate(): created tells whether createTable completed; alert is
\* the message shown, NoError when onSuccess was called
handleManualCreate(store, tableName, columns) ==
  LET notBlank(c) == trim(c.name) # <<>>
      validCols == SelectSeq(columns, notBlank)
      finalName == toLowerCase(trim(tableName))
      validated(v) ==
        IF v.error # NoError
        THEN [created |-> FALSE, alert |-> v.error, finalName |-> finalName,
              db |-> v.db, reqs |-> v.reqs]
        ELSE IF validCols = <<>>
        THEN [created |-> FALSE, alert |-> "At least one column name is required",
              finalName |-> finalName, db |-> v.db, reqs |-> v.reqs]
        ELSE LET made(c) ==
                   [created |-> c.ok,
                    alert |-> IF c.ok THEN NoError ELSE "Error creating table",
                    finalName |-> finalName, db |-> c.db, reqs |-> v.reqs \o c.reqs]
             IN  made(createTable(v.db, finalName, validCols))
  IN  validated(validateTableName(store, tableName))

\* handleCsvCreate() with a parsed file
handleCsvCreate(store, tableName, csvData) ==
  LET finalName == toLowerCase(trim(tableName))
      validated(v) ==
        IF v.error # NoError
        THEN [created |-> FALSE, alert |-> v.error, finalName |-> finalName,
              db |-> v.db, reqs |-> v.reqs]
        ELSE LET made(c) ==
                   [created |-> c.ok,
                    alert |-> IF c.ok THEN NoError ELSE "Error creating table from CSV",
                    finalName |-> finalName, db |-> c.db, reqs |-> v.reqs \o c.reqs]
             IN  made(createTableFromCSV(v.db, finalName, csvData.headers, csvData.rows))
  IN  validated(validateTableName(store, tableName))

\* confirmDeleteTable(): dropTable, then the table list is fetched again
confirmDeleteTable(store, tableToDelete) ==
  LET dropped(d) ==
        IF ~d.ok THEN [ok |-> FALSE, names |-> <<>>, db |-> d.db, reqs |-> d.reqs]
        ELSE LET refreshed(updatedTables) ==
                   [ok |-> updatedTables.ok, names |-> updatedTables.names,
                    db |-> updatedTables.db, reqs |-> d.reqs \o updatedTables.reqs]
             IN  refreshed(getTableNames(d.db))
  IN  dropped(dropTable(store, tableToDelete))

\* the upload endpoint appends the rows of the file to the table, column by
\* header name; it answers an error, and changes nothing, when uploadOk is false
uploadCSV(store, tableName, fileData, uploadOk) ==
  IF ~uploadOk \/ ~HasTable(store, tableName) THEN [ok |-> FALSE, db |-> store]
  ELSE LET ti == TableIndex(store, tableName)
           t == store[ti]
           rowOf(k) ==
             [id |-> t.seq + k,
              vals |-> [c \in {t.cols[i].name : i \in 1..Len(t.cols)} |->
                          JsonParam(Field(fileData.rows[k], c))]]
       IN  [ok |-> TRUE,
            db |-> ReplaceAt(store, ti,
                     [t EXCEPT !.rows = t.rows \o [k \in 1..Len(fileData.rows) |-> rowOf(k)],
                               !.seq = t.seq + Len(fileData.rows)])]

\* validateAndImport with the upload sent before the rows are deleted
validateAndImportUploadFirst(store, resource, mode, fileData, deleteOk, uploadOk) ==
  LET failed(store2, requests, sent) ==
        [ok |-> FALSE, alert |-> "Import failed", uploadSent |-> sent,
         db |-> store2, reqs |-> requests]
      uploaded(up) ==
        IF ~up.ok THEN failed(up.db, <<>>, TRUE)
        ELSE IF mode # "replace"
        THEN [ok |-> TRUE, alert |-> NoError, uploadSent |-> TRUE,
              db |-> up.db, reqs |-> <<>>]
        ELSE LET cleared(del) ==
                   IF ~del.ok THEN failed(del.db, del.reqs, TRUE)
                   ELSE [ok |-> TRUE, alert |-> NoError, uploadSent |-> TRUE,
                         db |-> del.db, reqs |-> del.reqs]
                 statement == [op |-> "delete",
                               table |-> Ident(resource, safeName(resource)),
                               where |-> "all"]
             IN  cleared(IF deleteOk
                         THEN remoteExecute(up.db, statement, <<>>)
                         ELSE remoteExecuteRefused(up.db, statement, <<>>))
  IN  uploaded(uploadCSV(store, resource, fileData, uploadOk))
\* validateAndImport() of ImportModal: in replace mode every row is deleted
\* first, then the file is uploaded in append mode; an error thrown by
\* either request is caught and shown with alert. deleteOk and uploadOk tell
\* whether the endpoint of the request answers 2xx; uploadSent tells whether
\* the upload request was made.
validateAndImport(store, resource, mode, fileData, deleteOk, uploadOk) ==
  LET failed(store2, requests, sent) ==
        [ok |-> FALSE, alert |-> "Import failed", uploadSent |-> sent,
         db |-> store2, reqs |-> requests]
      cleared(del) ==
        IF ~del.ok THEN failed(del.db, del.reqs, FALSE)
        ELSE LET uploaded(up) ==
                   IF ~up.ok THEN failed(up.db, del.reqs, TRUE)
                   ELSE [ok |-> TRUE, alert |-> NoError, uploadSent |-> TRUE,
                         db |-> up.db, reqs |-> del.reqs]
             IN  uploaded(uploadCSV(del.db, resource, fileData, uploadOk))
      statement == [op |-> "delete",
                    table |-> Ident(resource, safeName(resource)),
                    where |-> "all"]
  IN  cleared(IF mode # "replace"
              THEN [ok |-> TRUE, rows |-> <<>>, db |-> store, reqs |-> <<>>]
              ELSE IF deleteOk
              THEN remoteExecute(store, statement, <<>>)
              ELSE remoteExecuteRefused(store, statement, <<>>))

(***************************************************************************)
(* Inputs of the record list screen (ResourceList)                         *)
(***************************************************************************)
\* parseInt(value, 10): the leading digits, NaN without any (the model's
\* numbers have one digit)
parseInt(text) == IF text # <<>> /\ IsDigit(text[1]) THEN <<text[1]>> ELSE NaN

\* the coercion of handleCellEdit / handleNewRowChange: by declared type
parseValue(col, text) ==
  LET type == toUpperCase(col.type)
  IN  IF includes(type, <<"I","N","T">>) THEN parseInt(text)
      ELSE IF \/ includes(type, <<"R","E","A","L">>)
              \/ includes(type, <<"F","L","O","A","T">>)
              \/ includes(type, <<"N","U","M">>)
      THEN parseInt(text)
      ELSE text

TEXT == <<"T","E","X","T">>
INTEGER == <<"I","N","T","E","G","E","R">>
VARCHAR == <<"v","a","r","c","h","a","r">>

\* what a user types into a cell or into the search box
InputTexts == {<<"a">>, <<"_">>, <<"1">>}

MaxId == 2
Ids == 1..MaxId

\* the objects a user can build from the columns: each column is absent or
\* holds a typed value, in column order
RECURSIVE VariablesOver(_)
VariablesOver(cols) ==
  IF cols = <<>> THEN {<<>>}
  ELSE LET rest == VariablesOver(Tail(cols))
           c == Head(cols)
       IN  rest \cup
           {<<[key |-> c.name, value |-> parseValue(c, x)]>> \o r :
              x \in InputTexts, r \in rest}

FilterInputs ==
  {<<>>} \cup {<<[field |-> QField, operator |-> "contains", value |-> v]>> :
                 v \in InputTexts}

ASC == <<"a","s","c">>
DESC == <<"d","e","s","c">>
\* handleSort: no sorter, or one over a column of the table
SorterInputs(t) ==
  {<<>>} \cup {<<[field |-> t.cols[i].name, order |-> o]>> :
                 i \in 1..Len(t.cols), o \in {ASC, DESC}}

MaxPage == 2
MaxPageSize == 2
PaginationInputs ==
  {NoPagination} \cup
  {[on |-> TRUE, currentPage |-> p, pageSize |-> z] :
     p \in 0..MaxPage, z \in 1..MaxPageSize}

\* sequences of distinct ids, as Array.from(selectedIds) yields
IdLists == {ids \in SeqsUpTo(Ids, MaxId) :
              \A i, j \in 1..Len(ids) : i # j => ids[i] # ids[j]}

\* the tables the screen offers: those getTableNames lists
ListedTables(store) ==
  LET shown(names) == {store[TableIndex(store, names[i])] : i \in 1..Len(names)}
  IN  shown(getTableNames(store).names)

Result(op, ok, input, output, before) ==
  [op |-> op, ok |-> ok, in |-> input, out |-> output, before |-> before]

NoResult == Result("none", TRUE, <<>>, <<>>, <<>>)

(***************************************************************************)
(* Actions: one per handler; each runs the whole handler against the store *)
(***************************************************************************)
Idle == /\ arg = <<>>
        /\ res = <<>>

\* a handler starts once the screen has taken the result of the previous one
Ready == ret.op = "none"

GetList ==
  /\ Ready
  /\ \E t \in ListedTables(db) :
     \E filters \in FilterInputs, sorters \in SorterInputs(t), pagination \in PaginationInputs :
    \E r \in {getList(db, t.name, filters, sorters, pagination)} :
        /\ db' = r.db
        /\ reqs' = r.reqs
        /\ ret' = Result("getList", r.ok,
                         [resource |-> t.name, filters |-> filters,
                          sorters |-> sorters, pagination |-> pagination],
                         [data |-> r.data, total |-> r.total], db)
        /\ UNCHANGED <<arg, res>>

GetOne ==
  /\ Ready
  /\ \E t \in ListedTables(db) : \E id \in Ids :
    \E r \in {getOne(db, t.name, id)} :
        /\ db' = r.db
        /\ reqs' = r.reqs
        /\ ret' = Result("getOne", r.ok, [resource |-> t.name, id |-> id],
                         [data |-> r.data], db)
        /\ UNCHANGED <<arg, res>>

Create ==
  /\ Ready
  /\ \E t \in ListedTables(db) : \E variables \in VariablesOver(t.cols) :
    \E r \in {create(db, t.name, variables)} :
        /\ t.seq < MaxId
        /\ db' = r.db
        /\ reqs' = r.reqs
        /\ ret' = Result("create", r.ok, [resource |-> t.name, variables |-> variables],
                         [data |-> r.data], db)
        /\ UNCHANGED <<arg, res>>

Update ==
  /\ Ready
  /\ \E t \in ListedTables(db) : \E id \in Ids :
     \E variables \in VariablesOver(t.cols) \ {<<>>} :
    \E r \in {update(db, t.name, id, variables)} :
        /\ db' = r.db
        /\ reqs' = r.reqs
        /\ ret' = Result("update", r.ok,
                         [resource |-> t.name, id |-> id, variables |-> variables],
                         [data |-> r.data], db)
        /\ UNCHANGED <<arg, res>>

DeleteOne ==
  /\ Ready
  /\ \E t \in ListedTables(db) : \E id \in Ids :
    \E r \in {deleteOne(db, t.name, id)} :
        /\ db' = r.db
        /\ reqs' = r.reqs
        /\ ret' = Result("deleteOne", r.ok, [resource |-> t.name, ids |-> <<id>>],
                         [data |-> r.data], db)
        /\ UNCHANGED <<arg, res>>

DeleteMany ==
  /\ Ready
  /\ \E t \in ListedTables(db) : \E ids \in IdLists :
    \E r \in {deleteMany(db, t.name, ids)} :
        /\ db' = r.db
        /\ reqs' = r.reqs
        /\ ret' = Result("deleteMany", r.ok, [resource |-> t.name, ids |-> ids],
                         [data |-> r.data], db)
        /\ UNCHANGED <<arg, res>>

\* the file of an import: its header names a column of the first declared
\* column's name
ImportFile(t) ==
  [headers |-> <<t.cols[1].name>>,
   rows |-> <<[c \in {t.cols[1].name} |-> <<"a">>]>>]

Import ==
  /\ Ready
  /\ \E t \in ListedTables(db) :
     \E mode \in {"append", "replace"}, deleteOk \in BOOLEAN, uploadOk \in BOOLEAN :
    \E r \in {validateAndImport(db, t.name, mode, ImportFile(t), deleteOk, uploadOk)} :
        /\ t.seq < MaxId
        /\ db' = r.db
        /\ reqs' = r.reqs
        /\ ret' = Result("import", r.ok,
                         [resource |-> t.name, mode |-> mode, fileData |-> ImportFile(t),
                          deleteOk |-> deleteOk, uploadOk |-> uploadOk],
                         [alert |-> r.alert, uploadSent |-> r.uploadSent], db)
        /\ UNCHANGED <<arg, res>>

LoadColumns ==
  /\ Ready
  /\ \E t \in ListedTables(db) :
    \E r \in {getTableColumns(db, t.name)} :
        /\ db' = r.db
        /\ reqs' = r.reqs
        /\ ret' = Result("getTableColumns", r.ok, [resource |-> t.name],
                         [columns |-> r.rows], db)
        /\ UNCHANGED <<arg, res>>

RefreshTables ==
  /\ Ready
  /\ \E r \in {getTableNames(db)} :
      /\ db' = r.db
      /\ reqs' = r.reqs
      /\ ret' = Result("getTableNames", r.ok, <<>>, [names |-> r.names], db)
      /\ UNCHANGED <<arg, res>>

DeleteTable ==
  /\ Ready
  /\ \E t \in ListedTables(db) :
    \E r \in {confirmDeleteTable(db, t.name)} :
        /\ db' = r.db
        /\ reqs' = r.reqs
        /\ ret' = Result("confirmDeleteTable", r.ok, [tableToDelete |-> t.name],
                         [names |-> r.names], db)
        /\ UNCHANGED <<arg, res>>

ManualCreate(names, columnLists) ==
  /\ Ready
  /\ \E tableName \in names, columns \in columnLists :
    \E r \in {handleManualCreate(db, tableName, columns)} :
        /\ db' = r.db
        /\ reqs' = r.reqs
        /\ ret' = Result("handleManualCreate", r.created,
                         [tableName |-> tableName, columns |-> columns],
                         [alert |-> r.alert, finalName |-> r.finalName], db)
        /\ UNCHANGED <<arg, res>>

CsvCreate(names, files) ==
  /\ Ready
  /\ \E tableName \in names, csvData \in files :
    \E r \in {handleCsvCreate(db, tableName, csvData)} :
        /\ db' = r.db
        /\ reqs' = r.reqs
        /\ ret' = Result("handleCsvCreate", r.created,
                         [tableName |-> tableName, headers |-> csvData.headers,
                          rows |-> csvData.rows],
                         [alert |-> r.alert, finalName |-> r.finalName], db)
        /\ UNCHANGED <<arg, res>>

\* the screen takes the result of the handler that ended
Settle ==
  /\ ~Ready
  /\ ret' = NoResult
  /\ reqs' = <<>>
  /\ UNCHANGED <<arg, res, db>>

(***************************************************************************)
(* Spec: the record list screen over one table of the remote store         *)
(***************************************************************************)
Table(name, cols) == [name |-> name, cols |-> cols, rows |-> <<>>, seq |-> 0]
Col(name, type) == [name |-> name, type |-> type]

\* the tables the store may hold when the console connects
InitialTables ==
  { Table(<<"t">>, <<Col(<<"s">>, TEXT), Col(<<"n">>, INTEGER)>>),
    Table(<<"t">>, <<Col(<<"c", DQ>>, VARCHAR)>>),
    Table(<<"t">>, <<Col(<<"n">>, INTEGER)>>) }

ScreenTableNames == {<<"T", SP>>}
ScreenColumnLists == {<<Col(<<"s">>, TEXT), Col(<<"n">>, INTEGER)>>}
ScreenFiles == {[headers |-> <<<<"s">>>>, rows |-> <<[h \in {<<"s">>} |-> <<"a">>]>>]}

Init ==
  /\ Idle
  /\ db \in {<<t>> : t \in InitialTables}
  /\ ret = NoResult
  /\ reqs = <<>>

Next ==
  \/ GetList
  \/ GetOne
  \/ Create
  \/ Update
  \/ DeleteOne
  \/ DeleteMany
  \/ Import
  \/ LoadColumns
  \/ RefreshTables
  \/ DeleteTable
  \/ ManualCreate(ScreenTableNames, ScreenColumnLists)
  \/ CsvCreate(ScreenTableNames, ScreenFiles)
  \/ Settle

Spec == Init /\ [][Next]_vars

(***************************************************************************)
(* SpecTables: the create-table flow, table deletion and the table list    *)
(* over a store that starts empty                                          *)
(***************************************************************************)
SQLITE3 == <<"s","q","l","i","t","e","3">>

\* names typed into the create-table form
FormTableNames ==
  { <<"T", SP>>, SQLITE3, <<"1", "t">>, <<>>,
    <<"s","q","l","i","t","e","_","t">> }

\* column lists typed into the form
FormColumnLists ==
  { <<Col(ID, TEXT)>>,
    <<Col(<<SP, "I", "d">>, INTEGER), Col(<<"s">>, TEXT)>>,
    <<Col(<<"s">>, TEXT), Col(<<>>, TEXT)>>,
    <<Col(<<SP>>, TEXT)>>,
    <<Col(ID, TEXT), Col(<<"I", "D">>, TEXT)>> }

\* parsed files dropped onto the form
FormFiles ==
  { [headers |-> <<ID>>, rows |-> <<[h \in {ID} |-> <<"1">>]>>],
    [headers |-> <<<<"s">>, <<"I", "d", SP>>>>,
     rows |-> <<[h \in {<<"s">>, <<"I", "d", SP>>} |-> <<"a">>]>>],
    [headers |-> <<<<"s">>, <<"n">>>>,
     rows |-> <<[h \in {<<"s">>, <<"n">>} |-> IF h = <<"s">> THEN <<"a">> ELSE <<"1">>],
                [h \in {<<"s">>, <<"n">>} |-> IF h = <<"s">> THEN <<"b">> ELSE <<"2">>]>>] }

InitTables ==
  /\ Idle
  /\ db = <<>>
  /\ ret = NoResult
  /\ reqs = <<>>

NextTables ==
  \/ ManualCreate(FormTableNames, FormColumnLists)
  \/ CsvCreate(FormTableNames, FormFiles)
  \/ DeleteTable
  \/ RefreshTables
  \/ LoadColumns
  \/ Settle

SpecTables == InitTables /\ [][NextTables]_vars

(***************************************************************************)
(* SpecCreate: create as its two requests, with another writer of the      *)
(* same remote store acting between them. res holds the call in flight:    *)
(* its arguments, the store when it started, the id its INSERT was given   *)
(* and what another writer did to the table since.                         *)
(***************************************************************************)
Pending(resource, variables, before, own) ==
  [resource |-> resource, variables |-> variables, before |-> before,
   own |-> own, inserts |-> FALSE, deletes |-> FALSE]

\* the call in flight after another writer inserted into / deleted from table
NoteInsert(name) ==
  [i \in 1..Len(res) |->
     IF SameName(res[i].resource, name) THEN [res[i] EXCEPT !.inserts = TRUE]
     ELSE res[i]]
NoteDelete(name) ==
  [i \in 1..Len(res) |->
     IF SameName(res[i].resource, name) THEN [res[i] EXCEPT !.deletes = TRUE]
     ELSE res[i]]

CreateInsert ==
  /\ Ready
  /\ res = <<>>
  /\ \E t \in ListedTables(db) : \E variables \in VariablesOver(t.cols) :
    \E ins \in {createInsert(db, t.name, variables)} :
        /\ t.seq < MaxId
        /\ db' = ins.db
        /\ reqs' = ins.reqs
        /\ res' = IF ins.ok
                  THEN <<Pending(t.name, variables, db, NextIdOf(t))>>
                  ELSE <<>>
        /\ ret' = IF ins.ok THEN ret
                  ELSE Result("create", FALSE,
                              [resource |-> t.name, variables |-> variables],
                              [data |-> <<>>, own |-> 0,
                               inserts |-> FALSE, deletes |-> FALSE], db)
        /\ UNCHANGED arg

CreateSelect ==
  /\ res # <<>>
  /\ \E r \in {createSelect(db, res[1].resource)} :
        /\ db' = r.db
        /\ reqs' = reqs \o r.reqs
        /\ ret' = Result("create", r.ok,
                         [resource |-> res[1].resource,
                          variables |-> res[1].variables],
                         [data |-> FirstOf(r.rows), own |-> res[1].own,
                          inserts |-> res[1].inserts,
                          deletes |-> res[1].deletes], res[1].before)
        /\ res' = <<>>
        /\ UNCHANGED arg

\* another client of the same store inserts a row
OtherWriterInsert ==
  /\ Ready
  /\ \E t \in ListedTables(db) : \E variables \in VariablesOver(t.cols) \ {<<>>} :
    \E ins \in {createInsert(db, t.name, variables)} :
        /\ t.seq < MaxId
        /\ db' = ins.db
        /\ res' = NoteInsert(t.name)
        /\ UNCHANGED <<arg, ret, reqs>>

\* another client of the same store deletes a row
OtherWriterDelete ==
  /\ Ready
  /\ \E t \in ListedTables(db) : \E id \in Ids :
    \E del \in {deleteOne(db, t.name, id)} :
        /\ del.db # db
        /\ db' = del.db
        /\ res' = NoteDelete(t.name)
        /\ UNCHANGED <<arg, ret, reqs>>

NextCreate ==
  \/ CreateInsert
  \/ CreateSelect
  \/ OtherWriterInsert
  \/ OtherWriterDelete
  \/ Settle

SpecCreate == Init /\ [][NextCreate]_vars

(***************************************************************************)
(* SpecOutage: the handlers of the console when the endpoint answers one   *)
(* of their requests with a non-2xx status. remoteExecute throws; what the *)
(* user then sees is decided by the catch of the handler, if it has one:   *)
(* an alert, the error screen of App, or nothing (the error goes to the    *)
(* console log or is an unhandled rejection).                              *)
(***************************************************************************)
\* the answer to the first request of a call when the endpoint refuses it:
\* call is the call as it runs against a working endpoint, whose first
\* request is the same
Refused(store, call) ==
  [ok |-> FALSE, db |-> store, reqs |-> FirstOf(call.reqs)]

\* the handler op ends with the error thrown for the refused request of r,
\* after the requests sent before it
Thrown(op, input, sent, r, shown) ==
  /\ r.reqs # <<>>
  /\ db' = r.db
  /\ reqs' = sent \o r.reqs
  /\ ret' = Result(op, FALSE, input, [shown |-> shown], db)
  /\ UNCHANGED <<arg, res>>

\* init effect of App: initDatabase().then(...).catch(err => setError(...))
ConnectRefused ==
  /\ Ready
  /\ \E r \in {remoteExecuteRefused(db, [op |-> "probe"], <<>>)} :
       Thrown("initDatabase", <<>>, <<>>, r, "error screen")

\* refreshTables: catch (err) { console.error(...) }
RefreshTablesRefused ==
  /\ Ready
  /\ \E r \in {Refused(db, getTableNames(db))} :
       Thrown("refreshTables", <<>>, <<>>, r, "console")

\* column load effect of ResourceList: getTableColumns(resource).then(...)
\* without a catch
LoadColumnsRefused ==
  /\ Ready
  /\ \E t \in ListedTables(db) :
     \E r \in {Refused(db, getTableColumns(db, t.name))} :
       Thrown("getTableColumns", [resource |-> t.name], <<>>, r, "none")

\* confirmDeleteTable: catch (err) { alert(...) }
DeleteTableRefused ==
  /\ Ready
  /\ \E t \in ListedTables(db) :
     \E r \in {Refused(db, dropTable(db, t.name))} :
       Thrown("confirmDeleteTable", [tableToDelete |-> t.name], <<>>, r, "alert")

\* handleManualCreate / handleCsvCreate: validateTableName is awaited before
\* the try block, so the error of its getTableNames() leaves the handler
\* uncaught
ValidateRefused ==
  /\ Ready
  /\ \E op \in {"handleManualCreate", "handleCsvCreate"} :
     \E tableName \in FormTableNames :
     \E r \in {Refused(db, validateTableName(db, tableName))} :
       Thrown(op, [tableName |-> tableName], <<>>, r, "none")

\* handleManualCreate: the CREATE TABLE is refused inside the try block
CreateTableRefused ==
  /\ Ready
  /\ \E tableName \in FormTableNames, columns \in ScreenColumnLists :
     \E v \in {validateTableName(db, tableName)} :
     \E r \in {Refused(v.db, createTable(v.db, toLowerCase(trim(tableName)), columns))} :
       /\ v.error = NoError
       /\ Thrown("handleManualCreate",
                 [tableName |-> tableName, columns |-> columns], v.reqs, r, "alert")

\* handleSaveNewRow: catch (err) { alert(...) }
SaveNewRowRefused ==
  /\ Ready
  /\ \E t \in ListedTables(db) : \E variables \in VariablesOver(t.cols) :
     \E r \in {Refused(db, create(db, t.name, variables))} :
       Thrown("handleSaveNewRow",
              [resource |-> t.name, variables |-> variables], <<>>, r, "alert")

\* handleSaveAll: catch (err) { alert(...) }
SaveAllRefused ==
  /\ Ready
  /\ \E t \in ListedTables(db) : \E id \in Ids :
     \E variables \in VariablesOver(t.cols) \ {<<>>} :
     \E r \in {Refused(db, update(db, t.name, id, variables))} :
       Thrown("handleSaveAll",
              [resource |-> t.name, id |-> id, variables |-> variables],
              <<>>, r, "alert")

\* handleDeleteSelected: catch (err) { alert(...) }
DeleteSelectedRefused ==
  /\ Ready
  /\ \E t \in ListedTables(db) : \E ids \in IdLists :
     \E r \in {Refused(db, deleteMany(db, t.name, ids))} :
       Thrown("handleDeleteSelected", [resource |-> t.name, ids |-> ids],
              <<>>, r, "alert")

NextOutage ==
  \/ ConnectRefused
  \/ RefreshTablesRefused
  \/ LoadColumnsRefused
  \/ DeleteTableRefused
  \/ ValidateRefused
  \/ CreateTableRefused
  \/ SaveNewRowRefused
  \/ SaveAllRefused
  \/ DeleteSelectedRefused
  \/ Import
  \/ Create
  \/ DeleteMany
  \/ Settle

SpecOutage == Init /\ [][NextOutage]_vars

(***************************************************************************)
(* Properties                                                              *)
(***************************************************************************)
\* the table a data handler addressed, as it was before the handler ran
TableBefore == ret.before[TableIndex(ret.before, ret.in.resource)]
\* the same table after the handler
TableAfter == db[TableIndex(db, ret.in.resource)]

\* the declared columns whose type is text-like
TextLikeColumns(t) ==
  {t.cols[i].name : i \in {k \in 1..Len(t.cols) : IsTextLike(t.cols[k].type)}}

\* the values of the search filters that are not empty
SearchValues(filters) ==
  {filters[i].value :
     i \in {k \in 1..Len(filters) :
              filters[k].field = QField /\ filters[k].value # <<>>}}

\* the WHERE clause getList is to build: per search value, some text-like
\* column LIKE %value%; no condition for a table without text-like columns
MatchesFilters(t, row, filters) ==
  \A v \in SearchValues(filters) :
    \/ TextLikeColumns(t) = {}
    \/ \E c \in TextLikeColumns(t) : ValueLike(row.vals[c], <<"%">> \o v \o <<"%">>)

\* C2: for a fixed table content and filter list, the total of getList is
\* the number of rows matching the WHERE clause, whatever the pagination
\* (and the sorters) are.
GetListTotal ==
  (ret.op = "getList" /\ ret.ok) =>
    ret.out.total =
      Cardinality({i \in 1..Len(TableBefore.rows) :
                     MatchesFilters(TableBefore, TableBefore.rows[i], ret.in.filters)})

GetListTotalWitness ==
  /\ ret.op = "getList"
  /\ ret.ok
  /\ ret.in.pagination.on
  /\ ret.in.filters # <<>>
  /\ Len(ret.out.data) = 1
  /\ ret.out.total = 2
  /\ Len(TableBefore.rows) = 2

\* whether the handler of the state created a table
TableCreated == ret.op \in {"handleManualCreate", "handleCsvCreate"} /\ ret.ok

\* C3: after a table is created through the create-table flow with a name
\* that passed validation, the table listing contains that name exactly
\* once, in lowercase.
CreatedTableListedOnce ==
  TableCreated =>
    /\ ret.out.finalName = toLowerCase(ret.out.finalName)
    /\ Cardinality({i \in DOMAIN getTableNames(db).names :
                      getTableNames(db).names[i] = ret.out.finalName}) = 1

\* a user column name that collides with the surrogate key
IsIdName(name) == toLowerCase(trim(name)) = ID

\* the CREATE TABLE statements of the handler that ended
CreateRequests == {k \in 1..Len(reqs) : reqs[k].sql.op = "create"}

\* C4: the schema of every CREATE TABLE statement has exactly one column
\* named id, the surrogate key; a user column named id (without regard to
\* case, after trimming) is sent as original_id by createTable and as
\* id_original by createTableFromCSV, every other column under its own name.
OneIdColumn ==
  \A k \in CreateRequests :
    LET cols == reqs[k].sql.cols
        notBlank(c) == trim(c.name) # <<>>
    IN  /\ \A i \in 1..Len(cols) : ~IsIdName(NameOf(cols[i].name))
        /\ ret.op = "handleManualCreate" =>
             LET columns == SelectSeq(ret.in.columns, notBlank)
             IN  /\ Len(cols) = Len(columns)
                 /\ \A i \in 1..Len(columns) :
                      NameOf(cols[i].name) =
                        IF IsIdName(columns[i].name)
                        THEN <<"o","r","i","g","i","n","a","l","_","i","d">>
                        ELSE columns[i].name
        /\ ret.op = "handleCsvCreate" =>
             /\ Len(cols) = Len(ret.in.headers)
             /\ \A i \in 1..Len(ret.in.headers) :
                  NameOf(cols[i].name) =
                    IF IsIdName(ret.in.headers[i])
                    THEN <<"i","d","_","o","r","i","g","i","n","a","l">>
                    ELSE trim(ret.in.headers[i])

OneIdColumnWitness ==
  /\ ret.op = "handleManualCreate"
  /\ ret.ok
  /\ CreateRequests # {}
  /\ Len(ret.in.columns) = 2
  /\ \E i \in 1..Len(ret.in.columns) :
       IsIdName(ret.in.columns[i].name) /\ ret.in.columns[i].name # ID

\* whether the record the handler addressed existed before it ran
RecordExisted == \E i \in 1..Len(TableBefore.rows) : TableBefore.rows[i].id = ret.in.id

\* the fields an update supplied
SuppliedKeys == {ret.in.variables[i].key : i \in 1..Len(ret.in.variables)}

\* update followed by getOne: the record read back holds stored(v) in every
\* supplied field and its former value in every other field, and every
\* other record of the table is as it was
UpdateReadBack(stored(_)) ==
  (ret.op = "update" /\ ret.ok /\ RecordExisted) =>
    LET read == getOne(db, ret.in.resource, ret.in.id)
        old == TableBefore.rows[CHOOSE i \in 1..Len(TableBefore.rows) :
                                  TableBefore.rows[i].id = ret.in.id]
    IN  /\ read.ok
        /\ Len(read.data) = 1
        /\ read.data[1].id = ret.in.id
        /\ \A i \in 1..Len(ret.in.variables) :
             read.data[1].vals[ret.in.variables[i].key] = stored(ret.in.variables[i].value)
        /\ \A c \in DOMAIN old.vals \ SuppliedKeys : read.data[1].vals[c] = old.vals[c]
        /\ Len(TableAfter.rows) = Len(TableBefore.rows)
        /\ \A i \in 1..Len(TableBefore.rows) :
             TableBefore.rows[i].id # ret.in.id => TableAfter.rows[i] = TableBefore.rows[i]

\* C5: for an existing record id, update(resource, id, {field: v}) followed
\* by getOne(resource, id) returns a record whose field equals v and whose
\* other fields are unchanged; no other record is changed.
UpdateThenGetOne ==
  LET asGiven(v) == v
  IN  UpdateReadBack(asGiven)

\* C5, amended: the field read back equals v as the JSON request body
\* carries it (a NaN or undefined v is carried, stored and read back as
\* null); the other fields and the other records are unchanged.
UpdateThenGetOneAsSent == UpdateReadBack(JsonParam)

UpdateThenGetOneAsSentWitness ==
  /\ ret.op = "update"
  /\ ret.ok
  /\ RecordExisted
  /\ Len(TableBefore.rows) = 2
  /\ \E i \in 1..Len(ret.in.variables) : ret.in.variables[i].value = NaN
  /\ \E c \in DOMAIN TableAfter.rows[1].vals \ SuppliedKeys :
       TableAfter.rows[1].vals[c] # Null

\* the ids a delete handler was given
DeletedIds == {ret.in.ids[i] : i \in 1..Len(ret.in.ids)}

\* C6: after deleteMany(resource, ids) a listing of the resource holds no
\* record whose id is in ids and every record whose id is not; deleteOne
\* and deleteMany complete without an error, also for an id that does not
\* exist.
DeleteManyRemoves ==
  /\ ret.op \in {"deleteOne", "deleteMany"} => ret.ok
  /\ ret.op = "deleteMany" =>
       LET listing == getList(db, ret.in.resource, <<>>, <<>>, NoPagination)
       IN  /\ listing.ok
           /\ \A i \in 1..Len(listing.data) : listing.data[i].id \notin DeletedIds
           /\ \A i \in 1..Len(TableBefore.rows) :
                TableBefore.rows[i].id \notin DeletedIds =>
                  \E j \in 1..Len(listing.data) : listing.data[j] = TableBefore.rows[i]

DeleteManyRemovesWitness ==
  /\ ret.op = "deleteMany"
  /\ Len(TableBefore.rows) = 2
  /\ Len(TableAfter.rows) = 1
  /\ Len(ret.in.ids) = 1

\* v occurs in the stored value x as a substring, without regard to case
Contains(x, v) == x # Null /\ includes(toLowerCase(x), toLowerCase(v))

\* C8: with a search filter, a record is returned only if at least one of
\* its text-like columns contains the search value; other columns never
\* make a record appear.
SearchOnlyTextColumns ==
  (ret.op = "getList" /\ ret.ok) =>
    \A i \in 1..Len(ret.out.data) : \A v \in SearchValues(ret.in.filters) :
      \E c \in TextLikeColumns(TableBefore) : Contains(ret.out.data[i].vals[c], v)

IsMetaChar(c) == c \in {"%", "_", "'"}

\* the patterns a list request is to bind: one %value% per searched column
BoundPatterns(filters) == {<<"%">> \o v \o <<"%">> : v \in SearchValues(filters)}

\* C9: a search value that contains %, _ or ' is literal substring content:
\* over a table with text-like columns getList returns exactly the records
\* in which some text-like column contains the value, and the value travels
\* in the bound parameters only.
SearchIsLiteral ==
  (/\ ret.op = "getList"
   /\ ret.ok
   /\ ~ret.in.pagination.on
   /\ TextLikeColumns(TableBefore) # {}
   /\ SearchValues(ret.in.filters) # {}
   /\ \A v \in SearchValues(ret.in.filters) : \E k \in 1..Len(v) : IsMetaChar(v[k]))
  => /\ {ret.out.data[i].id : i \in 1..Len(ret.out.data)} =
          {TableBefore.rows[i].id :
             i \in {k \in 1..Len(TableBefore.rows) :
                      \A v \in SearchValues(ret.in.filters) :
                        \E c \in TextLikeColumns(TableBefore) :
                          Contains(TableBefore.rows[k].vals[c], v)}}
     /\ \A k \in 1..Len(reqs) :
          reqs[k].sql.op \in {"count", "select"} =>
            {reqs[k].params[i] : i \in 1..Len(reqs[k].params)}
              = BoundPatterns(ret.in.filters)

\* the identifiers a statement interpolates
IdentsOf(sql) ==
  IF sql.op = "tables" THEN {}
  ELSE {sql.table} \cup
       (IF sql.op = "create" THEN {sql.cols[i].name : i \in 1..Len(sql.cols)}
        ELSE IF sql.op = "insert" THEN {sql.cols[i] : i \in 1..Len(sql.cols)}
        ELSE IF sql.op = "update" THEN {sql.set[i] : i \in 1..Len(sql.set)}
        ELSE IF sql.op \in {"count", "select"}
             THEN UNION {{sql.where[i][k] : k \in 1..Len(sql.where[i])} :
                           i \in 1..Len(sql.where)}
                  \cup (IF sql.op = "select"
                        THEN {sql.order[i].col : i \in 1..Len(sql.order)}
                        ELSE {})
        ELSE {})

\* C10: every table name and column name interpolated into the text of a
\* statement is double-quote escaped: it is one quoted token that reads
\* back as the name the caller passed.
IdentifiersQuoted ==
  \A k \in 1..Len(reqs) : \A ident \in IdentsOf(reqs[k].sql) :
    /\ WellQuoted(ident.text)
    /\ NameOf(ident) = ident.raw

IdentifiersQuotedWitness ==
  \E k \in 1..Len(reqs) :
    /\ reqs[k].sql.op = "select"
    /\ reqs[k].sql.where # <<>>
    /\ \E ident \in IdentsOf(reqs[k].sql) : includes(ident.raw, <<DQ>>)

\* request k of the handler that ended carries a value of the caller in its
\* text: the direction of a sorter, the page size and offset, or the type
\* of a column typed into the create-table form
CallerValueInText(k) ==
  LET sql == reqs[k].sql
  IN  \/ /\ ret.op = "getList"
         /\ sql.op = "select"
         /\ \/ \E i \in 1..Len(sql.order) :
                 sql.order[i].dir = toUpperCase(ret.in.sorters[i].order)
            \/ sql.limit.on /\ ret.in.pagination.on
      \/ /\ ret.op = "handleManualCreate"
         /\ sql.op = "create"
         /\ \E i \in 1..Len(sql.cols) : \E j \in 1..Len(ret.in.columns) :
              sql.cols[i].type = ret.in.columns[j].type

\* C11: no value of the caller is placed into the text of a statement:
\* filter values, ids, field values, sort directions, page size and offset
\* and column types travel in the bound parameters or not at all.
NoCallerValueInText ==
  \A k \in 1..Len(reqs) : ~CallerValueInText(k)

\* the records of the addressed table that had the addressed id
RecordsWithId == SelectSeq(TableBefore.rows, LAMBDA r : r.id = ret.in.id)

\* C13: getOne fails with a not-found error whenever the query returns zero
\* rows and returns the single matching record otherwise; it never returns
\* an empty or undefined record.
GetOneFoundOrFails ==
  ret.op = "getOne" =>
    /\ RecordsWithId = <<>> => (~ret.ok /\ ret.out.data = <<>>)
    /\ RecordsWithId # <<>> => (ret.ok /\ ret.out.data = RecordsWithId)
    /\ ret.ok => Len(ret.out.data) = 1
    /\ db = ret.before

\* getOne addressed an id that a table holding other records does not hold
GetOneFoundOrFailsWitness ==
  /\ ret.op = "getOne"
  /\ ~ret.ok
  /\ TableBefore.rows # <<>>
  /\ RecordsWithId = <<>>

\* the record create returned is the one its INSERT added: it has the id the
\* INSERT was given, no record of the table has a greater id, and every
\* supplied field holds sent(v) for the supplied value v
CreateReturnsOwn(sent(_)) ==
  /\ Len(ret.out.data) = 1
  /\ ret.out.data[1].id = ret.out.own
  /\ \A i \in 1..Len(TableAfter.rows) : TableAfter.rows[i].id <= ret.out.data[1].id
  /\ \A i \in 1..Len(ret.in.variables) :
       ret.out.data[1].vals[ret.in.variables[i].key] = sent(ret.in.variables[i].value)

\* C14: create returns the record it just inserted (the row with the
\* greatest id, whose supplied fields equal the supplied values) whenever
\* no insert by another writer into the same table is interleaved between
\* its INSERT and its follow-up SELECT.
CreateReturnsInserted ==
  LET asGiven(v) == v
  IN  (ret.op = "create" /\ ret.ok /\ ~ret.out.inserts) => CreateReturnsOwn(asGiven)

\* C14, amended: with no insert and no delete by another writer between the
\* two requests, the record returned is the inserted one, its supplied
\* fields holding the values as the JSON request body carries them.
CreateReturnsInsertedAsSent ==
  (ret.op = "create" /\ ret.ok /\ ~ret.out.inserts /\ ~ret.out.deletes)
    => CreateReturnsOwn(JsonParam)

\* create returned its own record although the table already held another
\* writer's record, inserted before the call started
CreateReturnsInsertedAsSentWitness ==
  /\ ret.op = "create"
  /\ ret.ok
  /\ ~ret.out.inserts
  /\ ~ret.out.deletes
  /\ TableBefore.rows # <<>>
  /\ ret.in.variables # <<>>
  /\ Len(ret.out.data) = 1

\* the create-table form was submitted
FormSubmitted == ret.op \in {"handleManualCreate", "handleCsvCreate"}

\* the trimmed table name is empty, is no identifier, or is, without regard
\* to case, a name of the listing the store gave for the tables before
RejectedName ==
  LET trimmed == trim(ret.in.tableName)
      listed(names) ==
        \E i \in 1..Len(names) : toLowerCase(names[i]) = toLowerCase(trimmed)
  IN  \/ trimmed = <<>>
      \/ ~IsLetter(Head(trimmed)) /\ Head(trimmed) # "_"
      \/ \E i \in 1..Len(trimmed) :
           ~IsLetter(trimmed[i]) /\ ~IsDigit(trimmed[i]) /\ trimmed[i] # "_"
      \/ listed(getTableNames(ret.before).names)

\* the manual form has no column with a non-blank name
NoNamedColumn ==
  /\ ret.op = "handleManualCreate"
  /\ \A i \in 1..Len(ret.in.columns) : trim(ret.in.columns[i].name) = <<>>

\* C15: in the create-table flow no CREATE TABLE is issued when the trimmed
\* name is empty, is no identifier or is already listed (case-insensitively),
\* nor, in the manual flow, when no column has a non-blank name; a
\* validation message is shown and the remote schema is unchanged.
NoCreateWhenInvalid ==
  (FormSubmitted /\ (RejectedName \/ NoNamedColumn)) =>
    /\ CreateRequests = {}
    /\ ~ret.ok
    /\ ret.out.alert \in {"Table name is required",
                          "Invalid name (use letters/numbers/underscores only)",
                          "Table already exists",
                          "At least one column name is required"}
    /\ db = ret.before

\* the form was submitted with the name of a listed table in other case
NoCreateWhenInvalidWitness ==
  /\ FormSubmitted
  /\ ret.out.alert = "Table already exists"
  /\ ret.before # <<>>
  /\ \A i \in 1..Len(ret.before) : ret.before[i].name # trim(ret.in.tableName)

\* an import in replace mode ended
ReplaceImport == ret.op = "import" /\ ret.in.mode = "replace"

\* C16: in a replace-mode import the DELETE of all rows is issued and
\* completes before the upload is sent; if the DELETE fails the upload is
\* never sent; if the upload fails after the DELETE succeeded the table is
\* left empty with no new data and the failure is reported to the user.
ReplaceDeletesThenUploads ==
  ReplaceImport =>
    /\ Len(reqs) = 1
    /\ reqs[1].sql.op = "delete"
    /\ reqs[1].sql.where = "all"
    /\ NameOf(reqs[1].sql.table) = ret.in.resource
    /\ ~ret.in.deleteOk =>
         /\ ~ret.out.uploadSent
         /\ ~ret.ok
         /\ ret.out.alert = "Import failed"
         /\ db = ret.before
    /\ (ret.in.deleteOk /\ ~ret.in.uploadOk) =>
         /\ ret.out.uploadSent
         /\ ~ret.ok
         /\ ret.out.alert = "Import failed"
         /\ TableAfter.rows = <<>>
    /\ (ret.in.deleteOk /\ ret.in.uploadOk) =>
         /\ ret.out.uploadSent
         /\ ret.ok
         /\ Len(TableAfter.rows) = Len(ret.in.fileData.rows)
         /\ \A i \in 1..Len(TableAfter.rows) : TableAfter.rows[i].id > TableBefore.seq

\* the upload of a replace-mode import failed after the DELETE had emptied a
\* table that held records
ReplaceDeletesThenUploadsWitness ==
  /\ ReplaceImport
  /\ ret.in.deleteOk
  /\ ~ret.in.uploadOk
  /\ TableBefore.rows # <<>>
  /\ TableAfter.rows = <<>>

\* name starts with prefix, without regard to case
StartsWith(name, prefix) ==
  /\ Len(name) >= Len(prefix)
  /\ toLowerCase(SubSeq(name, 1, Len(prefix))) = toLowerCase(prefix)

\* a name with one of the two system prefixes
SystemPrefixed(name) ==
  \/ StartsWith(name, <<"s","q","l","i","t","e","_">>)
  \/ StartsWith(name, <<"_","c","f","_">>)

\* C17: getTableNames returns exactly the tables of the catalog whose names
\* do not start with sqlite_ or _cf_: every such name is excluded and no
\* other table is omitted.
TableNamesExact ==
  (ret.op = "getTableNames" /\ ret.ok) =>
    {ret.out.names[i] : i \in 1..Len(ret.out.names)}
      = {ret.before[i].name : i \in {k \in 1..Len(ret.before) :
                                       ~SystemPrefixed(ret.before[k].name)}}

\* a handler of the console ended with the error of a refused request
HandlerFailed ==
  /\ ~ret.ok
  /\ ret.op \in {"initDatabase", "refreshTables", "getTableColumns",
                 "confirmDeleteTable", "handleManualCreate", "handleCsvCreate",
                 "handleSaveNewRow", "handleSaveAll", "handleDeleteSelected"}

\* C18: every failure of a remote operation triggered from the UI (initial
\* connection, table list refresh, column introspection, table create and
\* drop, record create, update and delete, import) ends in a user-visible
\* message or error state; none is silently swallowed.
FailuresShown ==
  /\ HandlerFailed => ret.out.shown \in {"alert", "error screen"}
  /\ (ret.op = "import" /\ ~ret.ok) => ret.out.alert = "Import failed"

\* handleCsvCreate passed the validation and called createTableFromCSV
CsvCreateCalled ==
  /\ ret.op = "handleCsvCreate"
  /\ ret.out.alert \in {NoError, "Error creating table from CSV"}

\* the requests of createTableFromCSV: those after the listing query of the
\* validation
CsvRequests == Tail(reqs)

\* request k of createTableFromCSV is the CREATE TABLE declaring one TEXT
\* column per header
IsCsvCreateRequest(k) ==
  LET sql == CsvRequests[k].sql
  IN  /\ sql.op = "create"
      /\ NameOf(sql.table) = ret.out.finalName
      /\ Len(sql.cols) = Len(ret.in.headers)
      /\ \A i \in 1..Len(sql.cols) : sql.cols[i].type = <<"T","E","X","T">>
      /\ CsvRequests[k].params = <<>>

\* request k + 1 of createTableFromCSV is the INSERT of row k, binding the
\* values of the row in header order
IsCsvInsertRequest(k) ==
  LET sql == CsvRequests[k + 1].sql
  IN  /\ sql.op = "insert"
      /\ NameOf(sql.table) = ret.out.finalName
      /\ Len(sql.cols) = Len(ret.in.headers)
      /\ CsvRequests[k + 1].params =
           [i \in 1..Len(ret.in.headers) |-> ret.in.rows[k][ret.in.headers[i]]]

CsvRowsStored ==
  LET t == db[TableIndex(db, ret.out.finalName)]
  IN  /\ Len(t.rows) = Len(ret.in.rows)
      /\ \A k \in 1..Len(t.rows) :
           /\ t.rows[k].id = k
           /\ \A i \in 1..Len(ret.in.headers) :
                \E c \in DOMAIN t.rows[k].vals :
                  t.rows[k].vals[c] = ret.in.rows[k][ret.in.headers[i]]

PageRequested ==
  /\ ret.op = "getList"
  /\ ret.ok
  /\ ret.in.pagination.on
  /\ ret.in.pagination.currentPage >= 1
  /\ ret.in.pagination.pageSize > 0

\* the full filtered, ordered result: the same request without pagination
FullResult ==
  getList(ret.before, ret.in.resource, ret.in.filters, ret.in.sorters,
          NoPagination).data

\* rows first..last of a sequence, as far as it has them
Slice(rows, first, last) ==
  [i \in 1..(IF Len(rows) < first THEN 0
             ELSE (IF Len(rows) < last THEN Len(rows) ELSE last) - first + 1)
     |-> rows[first + i - 1]]

\* data is page p of size z of the result full, whose rows are distinct
IsPageOf(data, full, p, z) ==
  /\ data = Slice(full, (p - 1) * z + 1, p * z)
  /\ \A i, j \in 1..Len(full) : i # j => full[i].id # full[j].id

SearchedWithoutTextColumn ==
  /\ ret.op = "getList"
  /\ ret.ok
  /\ SearchValues(ret.in.filters) # {}
  /\ TextLikeColumns(TableBefore) = {}

\* C25: a non-empty free-text search over a table without a text-like
\* column builds no WHERE clause: the count and the select carry no
\* condition and no parameter, the total is the number of rows of the table
\* and, without pagination, every row of the table is returned.
SearchWithoutTextColumnUnfiltered ==
  SearchedWithoutTextColumn =>
    /\ \A k \in 1..Len(reqs) :
         reqs[k].sql.op \in {"count", "select"} =>
           reqs[k].sql.where = <<>> /\ reqs[k].params = <<>>
    /\ ret.out.total = Len(TableBefore.rows)
    /\ ~ret.in.pagination.on =>
         {ret.out.data[i].id : i \in 1..Len(ret.out.data)} =
           {TableBefore.rows[i].id : i \in 1..Len(TableBefore.rows)}

SearchWithoutTextColumnUnfilteredWitness ==
  /\ SearchedWithoutTextColumn
  /\ ~ret.in.pagination.on
  /\ Len(TableBefore.rows) = 2
  /\ Len(ret.out.data) = 2
  /\ ret.out.total = 2
  /\ \E k \in 1..Len(reqs) : reqs[k].sql.op = "select" /\ reqs[k].sql.where = <<>>

\* C26: whatever body a 2xx answer carries (array, object of any shape,
\* null or scalar), remoteExecute returns an array, and getTableNames never
\* takes its not-an-array branch.
RemoteExecuteReturnsArray ==
  /\ res.done => res.out.kind = "array"
  /\ ret.op = "getTableNames" => ~ret.out.failSoft

RemoteExecuteReturnsArrayWitness ==
  /\ res.done
  /\ ret.op = "getTableNames"
  /\ arg.kind = "object"
  /\ arg.results.kind = "true"
  /\ res.out = JArray(<<arg>>)
  /\ ret.out.names = <<Undefined>>

(***************************************************************************)
(* SpecScreen: one mounted record list screen (ResourceList): res is its   *)
(* view state, arg the mutation calls whose answer has not arrived         *)
(***************************************************************************)
\* PAGE_SIZE is 25 in the source; the model pages by a smaller size
PAGE_SIZE == 2
\* how many times the screen is mounted (the first mount and the switches)
MaxMounts == 2
\* how many mutation calls may await their answer at once
MaxInFlight == 2
\* how many rows the screen adds to a table
MaxCreated == 1

RowOf(id, col, v) == [id |-> id, vals |-> [c \in {col} |-> v]]

\* the remote store behind the screen: table t holds one row more than a
\* page, table u has another column and other ids
ScreenStore ==
  << [name |-> <<"t">>, cols |-> <<Col(<<"s">>, TEXT)>>,
      rows |-> [i \in 1..(PAGE_SIZE + 1) |->
                  RowOf(i, <<"s">>, IF i = 1 THEN <<"a">> ELSE <<"_">>)],
      seq |-> PAGE_SIZE + 1],
     [name |-> <<"u">>, cols |-> <<Col(<<"n">>, INTEGER)>>,
      rows |-> <<RowOf(PAGE_SIZE + 4, <<"n">>, <<"2">>)>>,
      seq |-> PAGE_SIZE + 4] >>

\* the useState initial values of a mounted ResourceList; mounting starts
\* the list query
Mounted(resource, mount) ==
  [resource |-> resource, mount |-> mount, searchValue |-> <<>>,
   filters |-> <<>>, current |-> 1, hasMore |-> TRUE, allRecords |-> <<>>,
   listData |-> <<>>, isFetching |-> TRUE, selectedIds |-> {},
   drafts |-> <<>>, isSavingDrafts |-> FALSE, isCreatingRow |-> FALSE,
   newRowData |-> <<>>, isCreatingSaving |-> FALSE,
   isDeleteModalOpen |-> FALSE, isDeleting |-> FALSE]

RecordIds(records) == {records[i].id : i \in 1..Len(records)}

\* the ids of a set in ascending order (the key order of Object.keys)
RECURSIVE SortedIds(_)
SortedIds(S) ==
  IF S = {} THEN <<>>
  ELSE LET least == CHOOSE x \in S : \A y \in S : x <= y
       IN  <<least>> \o SortedIds(S \ {least})

\* combinedMap: the previous records, each replaced by the item of the
\* page that has its id, then the items of the page with a new id
Combined(prev, data) ==
  LET latest(r) == IF \E k \in 1..Len(data) : data[k].id = r.id
                   THEN data[CHOOSE k \in 1..Len(data) : data[k].id = r.id]
                   ELSE r
      isNew(r) == \A i \in 1..Len(prev) : prev[i].id # r.id
  IN  [i \in 1..Len(prev) |-> latest(prev[i])] \o SelectSeq(data, isNew)

\* the effect on [listData, current]
accumulate(s) ==
  IF s.listData = <<>> THEN s
  ELSE [s EXCEPT
          !.allRecords = IF s.current = 1 THEN s.listData[1].data
                         ELSE Combined(s.allRecords, s.listData[1].data),
          !.hasMore = /\ s.current * PAGE_SIZE < s.listData[1].total
                      /\ Len(s.listData[1].data) > 0]

\* setAllRecords([]); setCurrent(1); refetch(): the effect on
\* [listData, current] runs again when current changed
reload(s) ==
  IF s.current # 1
  THEN accumulate([s EXCEPT !.allRecords = <<>>, !.current = 1,
                            !.isFetching = TRUE])
  ELSE [s EXCEPT !.allRecords = <<>>, !.isFetching = TRUE]

\* the effect on [filters, sorters], then the one on [listData, current];
\* the new filters are a new query, shown with the previous data until its
\* answer arrives
refilter(s, filters) ==
  IF s.current # 1
  THEN accumulate([s EXCEPT !.filters = filters, !.allRecords = <<>>,
                            !.current = 1, !.hasMore = TRUE,
                            !.isFetching = TRUE])
  ELSE [s EXCEPT !.filters = filters, !.allRecords = <<>>, !.hasMore = TRUE,
                 !.isFetching = TRUE]

\* the debounced search effect: one q filter for a non-empty search value
filtersOf(searchValue) ==
  IF searchValue # <<>>
  THEN <<[field |-> QField, operator |-> "contains", value |-> searchValue]>>
  ELSE <<>>

\* useList: the page travels under the key current, pageSize is PAGE_SIZE;
\* getList reads pagination.currentPage, which this object does not have
useList(store, s) ==
  getList(store, s.resource, s.filters, <<>>,
          [on |-> TRUE, currentPage |-> 0, pageSize |-> PAGE_SIZE])

\* {...prev, [fieldName]: parsedValue}
withField(values, key, v) ==
  IF \E i \in 1..Len(values) : values[i].key = key
  THEN [i \in 1..Len(values) |->
          IF values[i].key = key THEN [key |-> key, value |-> v] ELSE values[i]]
  ELSE Append(values, [key |-> key, value |-> v])

\* drafts[id] || {}
draftOf(drafts, id) ==
  IF \E i \in 1..Len(drafts) : drafts[i].id = id
  THEN drafts[CHOOSE i \in 1..Len(drafts) : drafts[i].id = id].values
  ELSE <<>>

\* {...prev, [rowId]: {...(prev[rowId] || {}), [fieldName]: parsedValue}}
withDraft(drafts, rowId, key, v) ==
  LET ids == SortedIds(RecordIds(drafts) \cup {rowId})
  IN  [i \in 1..Len(ids) |->
         [id |-> ids[i],
          values |-> IF ids[i] = rowId
                     THEN withField(draftOf(drafts, rowId), key, v)
                     ELSE draftOf(drafts, ids[i])]]

\* a mutation call of the screen mounted as s that awaits its answer
Call(op, s, ids, drafts, values) ==
  [op |-> op, mount |-> s.mount, resource |-> s.resource, ids |-> ids,
   saved |-> <<>>, drafts |-> drafts, values |-> values]

\* the columns the screen shows for its table, the id column aside
EditableColumns(store, s) == store[TableIndex(store, s.resource)].cols

\* what is typed into a cell, the new row or the search box
ScreenTexts == {<<"1">>}

\* the rows added to a table since the screen was first mounted
Created(store, resource) ==
  store[TableIndex(store, resource)].seq
    - ScreenStore[TableIndex(ScreenStore, resource)].seq

\* a step of the user or of the screen that sends nothing
Local(op, input, s) ==
  /\ res' = s
  /\ ret' = Result(op, TRUE, input, <<>>, db)
  /\ reqs' = <<>>
  /\ UNCHANGED <<arg, db>>

\* the modal of Delete Selected covers the screen while it is open
Usable == ~res.isDeleteModalOpen

InitScreen ==
  /\ arg = <<>>
  /\ res = Mounted(<<"t">>, 1)
  /\ db = ScreenStore
  /\ ret = NoResult
  /\ reqs = <<>>

\* the answer of the list query arrives: listData changes and the effect on
\* [listData, current] accumulates it
ListArrives ==
  /\ res.isFetching
  /\ \E r \in {useList(db, res)} :
       /\ res' = accumulate([res EXCEPT !.isFetching = FALSE,
                                        !.listData = <<[data |-> r.data,
                                                        total |-> r.total]>>])
       /\ ret' = Result("useList", r.ok,
                        [resource |-> res.resource, filters |-> res.filters,
                         current |-> res.current],
                        [data |-> r.data, total |-> r.total], db)
       /\ reqs' = r.reqs
       /\ db' = r.db
       /\ UNCHANGED arg

\* the IntersectionObserver callback: setCurrent(prev => prev + 1); whether
\* the query runs again for the new value of current is up to the
\* framework, the effect on [listData, current] runs in both cases
AdvancePage ==
  /\ res.hasMore
  /\ ~res.isFetching
  /\ res.allRecords # <<>>
  /\ \E refetched \in BOOLEAN :
       Local("setCurrent", [current |-> res.current + 1],
             accumulate([res EXCEPT !.current = @ + 1,
                                    !.isFetching = refetched]))

\* typing into the search box
TypeSearch ==
  /\ Usable
  /\ \E v \in {<<>>, <<"a">>} :
       /\ v # res.searchValue
       /\ Local("setSearchValue", [value |-> v],
                [res EXCEPT !.searchValue = v])

\* 500 ms after the last keystroke: setFilters
Debounce ==
  /\ res.filters # filtersOf(res.searchValue)
  /\ Local("setFilters", [filters |-> filtersOf(res.searchValue)],
           refilter(res, filtersOf(res.searchValue)))

\* handleSelectRow(id) for a row on display
SelectRow ==
  /\ Usable
  /\ \E id \in RecordIds(res.allRecords) :
       Local("handleSelectRow", [id |-> id],
             [res EXCEPT !.selectedIds = IF id \in @ THEN @ \ {id}
                                          ELSE @ \cup {id}])

\* handleSelectAll: the header checkbox, checked when it was not
SelectAll ==
  /\ Usable
  /\ \E checked \in
        {~(res.allRecords # <<>>
           /\ RecordIds(res.allRecords) \subseteq res.selectedIds)} :
       Local("handleSelectAll", [checked |-> checked],
             [res EXCEPT !.selectedIds = IF checked
                                          THEN RecordIds(res.allRecords)
                                          ELSE {}])

\* a cell edit that saves the cell on blur
CellEditSaving ==
  /\ ~res.isDeleteModalOpen
  /\ \E rowId \in {res.allRecords[i].id : i \in 1..Len(res.allRecords)} :
     \E k \in 1..Len(db[TableIndex(db, res.resource)].cols) :
     \E r \in {update(db, res.resource, rowId,
                      <<[key |-> db[TableIndex(db, res.resource)].cols[k].name,
                         value |-> <<"1">>]>>)} :
       /\ res' = [res EXCEPT !.drafts =
                    withDraft(@, rowId, db[TableIndex(db, res.resource)].cols[k].name,
                              <<"1">>)]
       /\ ret' = [op |-> "handleCellEdit", ok |-> TRUE,
                  in |-> [rowId |-> rowId,
                          fieldName |-> db[TableIndex(db, res.resource)].cols[k].name,
                          value |-> <<"1">>],
                  out |-> <<>>, before |-> db]
       /\ reqs' = r.reqs
       /\ db' = r.db
       /\ UNCHANGED arg

\* handleCellEdit(rowId, fieldName, value) on blur or Enter
CellEdit ==
  /\ Usable
  /\ \E rowId \in RecordIds(res.allRecords), text \in ScreenTexts :
     \E k \in 1..Len(EditableColumns(db, res)) :
       Local("handleCellEdit",
             [rowId |-> rowId, fieldName |-> EditableColumns(db, res)[k].name,
              value |-> text],
             [res EXCEPT !.drafts =
                withDraft(@, rowId, EditableColumns(db, res)[k].name,
                          parseValue(EditableColumns(db, res)[k], text))])

\* cancelEdits: the Discard button next to Save
CancelEdits ==
  /\ Usable
  /\ res.drafts # <<>>
  /\ ~res.isCreatingRow
  /\ Local("cancelEdits", <<>>, [res EXCEPT !.drafts = <<>>])

\* the Save button (disabled while isSavingDrafts): handleSaveAll starts
\* and sends the update of the first drafted row
ClickSave ==
  /\ Usable
  /\ res.drafts # <<>>
  /\ ~res.isCreatingRow
  /\ ~res.isSavingDrafts
  /\ Len(arg) < MaxInFlight
  /\ arg' = Append(arg, Call("handleSaveAll", res,
                             [i \in 1..Len(res.drafts) |-> res.drafts[i].id],
                             res.drafts, <<>>))
  /\ res' = [res EXCEPT !.isSavingDrafts = TRUE]
  /\ ret' = Result("handleSaveAll", TRUE, [drafts |-> res.drafts],
                   [alert |-> FALSE, done |-> FALSE], db)
  /\ reqs' = <<>>
  /\ UNCHANGED db

\* handleSaveAll after an answer, with the drafts emptied in finally
saveAllNextClearing(s, call, ok) ==
  IF call.mount # s.mount \/ (ok /\ Len(call.ids) > 1) THEN s
  ELSE IF ok
  THEN [s EXCEPT !.drafts = <<>>, !.isFetching = TRUE, !.isSavingDrafts = FALSE]
  ELSE [s EXCEPT !.drafts = <<>>, !.isSavingDrafts = FALSE]

\* handleSaveAll after the answer to the update of the first id of call:
\* the view state of the screen s (an unmounted screen sets no state)
saveAllNext(s, call, ok) ==
  IF call.mount # s.mount \/ (ok /\ Len(call.ids) > 1) THEN s
  ELSE IF ok
  THEN [s EXCEPT !.drafts = <<>>, !.isFetching = TRUE, !.isSavingDrafts = FALSE]
  ELSE [s EXCEPT !.isSavingDrafts = FALSE]

\* the answer to the update of handleSaveAll in flight: on success the loop
\* goes on to the next row or ends with setDrafts({}) and refetch(); on
\* failure the catch alerts; finally isSavingDrafts is false
UpdateAnswered ==
  \E i \in 1..Len(arg), answered \in BOOLEAN :
    /\ arg[i].op = "handleSaveAll"
    /\ \E r \in {IF answered
                 THEN update(db, arg[i].resource, Head(arg[i].ids),
                             draftOf(arg[i].drafts, Head(arg[i].ids)))
                 ELSE Refused(db, update(db, arg[i].resource, Head(arg[i].ids),
                                         draftOf(arg[i].drafts, Head(arg[i].ids))))} :
         /\ db' = r.db
         /\ reqs' = r.reqs
         /\ arg' = IF r.ok /\ Len(arg[i].ids) > 1
                   THEN ReplaceAt(arg, i,
                                  [arg[i] EXCEPT !.ids = Tail(@),
                                                 !.saved = Append(@, Head(arg[i].ids))])
                   ELSE RemoveAt(arg, i)
         /\ res' = saveAllNext(res, arg[i], r.ok)
         /\ ret' = Result("handleSaveAll", r.ok,
                          [call |-> arg[i], drafts |-> res.drafts],
                          [alert |-> ~r.ok,
                           done |-> r.ok /\ Len(arg[i].ids) = 1], db)

\* the Add Record button
StartCreate ==
  /\ Usable
  /\ ~res.isCreatingRow
  /\ res.drafts = <<>>
  /\ res.selectedIds = {}
  /\ Local("setIsCreatingRow", [value |-> TRUE],
           [res EXCEPT !.isCreatingRow = TRUE])

\* handleNewRowChange(fieldName, value)
NewRowChange ==
  /\ Usable
  /\ res.isCreatingRow
  /\ \E text \in ScreenTexts : \E k \in 1..Len(EditableColumns(db, res)) :
       Local("handleNewRowChange",
             [fieldName |-> EditableColumns(db, res)[k].name, value |-> text],
             [res EXCEPT !.newRowData =
                withField(@, EditableColumns(db, res)[k].name,
                          parseValue(EditableColumns(db, res)[k], text))])

\* the Discard button of the new row, or Escape in its input
DiscardNewRow ==
  /\ Usable
  /\ res.isCreatingRow
  /\ Local("setIsCreatingRow", [value |-> FALSE],
           [res EXCEPT !.isCreatingRow = FALSE, !.newRowData = <<>>])

\* handleSaveNewRow up to its await: setIsCreatingSaving(true) and
\* createMutate({resource, values: newRowData})
handleSaveNewRow(trigger) ==
  /\ Len(arg) < MaxInFlight
  /\ Created(db, res.resource) + Len(arg) < MaxCreated + 1
  /\ arg' = Append(arg, Call("handleSaveNewRow", res, <<>>, <<>>, res.newRowData))
  /\ res' = [res EXCEPT !.isCreatingSaving = TRUE]
  /\ ret' = Result("handleSaveNewRow", TRUE,
                   [trigger |-> trigger, values |-> res.newRowData],
                   [alert |-> FALSE], db)
  /\ reqs' = <<>>
  /\ UNCHANGED db

\* the Insert Record button, disabled while isCreatingSaving
ClickInsert ==
  /\ Usable
  /\ res.isCreatingRow
  /\ ~res.isCreatingSaving
  /\ handleSaveNewRow("click")

\* Enter in an input of the new row: onKeyDown calls handleSaveNewRow()
PressEnter ==
  /\ Usable
  /\ res.isCreatingRow
  /\ handleSaveNewRow("Enter")

\* the answer to the create of handleSaveNewRow
CreateAnswered ==
  \E i \in 1..Len(arg), answered \in BOOLEAN :
    /\ arg[i].op = "handleSaveNewRow"
    /\ \E r \in {IF answered THEN create(db, arg[i].resource, arg[i].values)
                 ELSE Refused(db, create(db, arg[i].resource, arg[i].values))} :
         /\ db' = r.db
         /\ reqs' = r.reqs
         /\ arg' = RemoveAt(arg, i)
         /\ res' = IF arg[i].mount # res.mount THEN res
                   ELSE IF r.ok
                   THEN [reload(res) EXCEPT !.isCreatingRow = FALSE,
                                            !.newRowData = <<>>,
                                            !.isCreatingSaving = FALSE]
                   ELSE [res EXCEPT !.isCreatingSaving = FALSE]
         /\ ret' = Result("handleSaveNewRow", r.ok, [call |-> arg[i]],
                          [alert |-> ~r.ok], db)

\* the Delete N Records button opens the confirmation
OpenDeleteModal ==
  /\ Usable
  /\ res.selectedIds # {}
  /\ res.drafts = <<>>
  /\ ~res.isCreatingRow
  /\ Local("setIsDeleteModalOpen", [value |-> TRUE],
           [res EXCEPT !.isDeleteModalOpen = TRUE])

CancelDelete ==
  /\ res.isDeleteModalOpen
  /\ Local("setIsDeleteModalOpen", [value |-> FALSE],
           [res EXCEPT !.isDeleteModalOpen = FALSE])

\* the Delete button of the confirmation, disabled while isDeleting:
\* handleDeleteSelected up to its await
ConfirmDelete ==
  /\ res.isDeleteModalOpen
  /\ ~res.isDeleting
  /\ Len(arg) < MaxInFlight
  /\ arg' = Append(arg, Call("handleDeleteSelected", res,
                             SortedIds(res.selectedIds), <<>>, <<>>))
  /\ res' = [res EXCEPT !.isDeleting = TRUE]
  /\ ret' = Result("handleDeleteSelected", TRUE, [ids |-> res.selectedIds],
                   [alert |-> FALSE], db)
  /\ reqs' = <<>>
  /\ UNCHANGED db

\* the answer to the deleteMany of handleDeleteSelected
DeleteAnswered ==
  \E i \in 1..Len(arg), answered \in BOOLEAN :
    /\ arg[i].op = "handleDeleteSelected"
    /\ \E r \in {IF answered THEN deleteMany(db, arg[i].resource, arg[i].ids)
                 ELSE Refused(db, deleteMany(db, arg[i].resource, arg[i].ids))} :
         /\ db' = r.db
         /\ reqs' = r.reqs
         /\ arg' = RemoveAt(arg, i)
         /\ res' = IF arg[i].mount # res.mount THEN res
                   ELSE IF r.ok
                   THEN [reload(res) EXCEPT !.selectedIds = {},
                                            !.isDeleteModalOpen = FALSE,
                                            !.isDeleting = FALSE]
                   ELSE [res EXCEPT !.isDeleting = FALSE]
         /\ ret' = Result("handleDeleteSelected", r.ok, [call |-> arg[i]],
                          [alert |-> ~r.ok], db)

\* a switch that keeps the view state of the screen
remountKeepingState(s, resource) ==
  [s EXCEPT !.resource = resource, !.mount = @ + 1, !.isFetching = TRUE]

\* <ResourceList key={activeResource} resource={activeResource} />: a new
\* key unmounts the screen and mounts a fresh one
remount(s, resource) == Mounted(resource, s.mount + 1)

\* another table is picked in the sidebar: ResourceList has
\* key={activeResource}, so the screen is mounted anew and loads the
\* columns of its table; the calls in flight keep running
SwitchTable ==
  /\ Usable
  /\ res.mount < MaxMounts
  /\ \E k \in 1..Len(db) :
       /\ db[k].name # res.resource
       /\ res' = remount(res, db[k].name)
       /\ ret' = Result("setActiveResource", TRUE, [resource |-> db[k].name],
                        <<>>, db)
       /\ reqs' = getTableColumns(db, db[k].name).reqs
       /\ UNCHANGED <<arg, db>>

\* paging, search, selection and Delete Selected
NextScreen ==
  \/ ListArrives
  \/ AdvancePage
  \/ TypeSearch
  \/ Debounce
  \/ SelectRow
  \/ SelectAll
  \/ OpenDeleteModal
  \/ CancelDelete
  \/ ConfirmDelete
  \/ DeleteAnswered

SpecScreen == InitScreen /\ [][NextScreen]_vars

\* cell edits, Save and Discard
NextDrafts ==
  \/ ListArrives
  \/ TypeSearch
  \/ Debounce
  \/ CellEdit
  \/ CancelEdits
  \/ ClickSave
  \/ UpdateAnswered

SpecDrafts == InitScreen /\ [][NextDrafts]_vars

\* the screen across a switch of the active table
NextSwitch ==
  \/ ListArrives
  \/ SelectRow
  \/ CellEdit
  \/ ClickSave
  \/ UpdateAnswered
  \/ OpenDeleteModal
  \/ ConfirmDelete
  \/ DeleteAnswered
  \/ SwitchTable

SpecSwitch == InitScreen /\ [][NextSwitch]_vars

\* the new-row flow of the screen
NextNewRow ==
  \/ ListArrives
  \/ StartCreate
  \/ NewRowChange
  \/ DiscardNewRow
  \/ ClickInsert
  \/ PressEnter
  \/ CreateAnswered
  \/ SwitchTable

SpecNewRow == InitScreen /\ [][NextNewRow]_vars

(***************************************************************************)
(* Properties of the record list screen                                    *)
(***************************************************************************)
\* the mutation calls of the mounted screen that await their answer
MutationsInFlight == {i \in 1..Len(arg) : arg[i].mount = res.mount}

\* C21: within one screen at most one user-triggered mutating operation is
\* in flight: while one is pending, triggering it again (a second click, or
\* Enter in the new-row input) sends nothing more.
OneMutationInFlight == Cardinality(MutationsInFlight) <= 1

\* the step was an answer to an update of handleSaveAll
SaveAnswered == ret.op = "handleSaveAll" /\ "call" \in DOMAIN ret.in

\* request k is the update of row id carrying exactly the drafted values
IsUpdateOf(k, resource, id, values) ==
  /\ reqs[k].sql.op = "update"
  /\ NameOf(reqs[k].sql.table) = resource
  /\ [i \in 1..Len(reqs[k].sql.set) |-> NameOf(reqs[k].sql.set[i])]
       = [i \in 1..Len(values) |-> values[i].key]
  /\ reqs[k].params = JsonParams([i \in 1..Len(values) |-> values[i].value]
                                 \o <<IdParam(id)>>)

\* C22: a cell edit changes the drafts only and sends nothing; an update is
\* sent only by Save, one per drafted row in turn, carrying exactly the
\* fields drafted for that row, and when no update fails every drafted row
\* has had its update; Discard empties the drafts and sends nothing.
EditsSentOnlyBySave ==
  /\ ret.op = "handleCellEdit" =>
       /\ reqs = <<>>
       /\ db = ret.before
       /\ \E i \in 1..Len(draftOf(res.drafts, ret.in.rowId)) :
            draftOf(res.drafts, ret.in.rowId)[i].key = ret.in.fieldName
  /\ ret.op = "cancelEdits" =>
       reqs = <<>> /\ db = ret.before /\ res.drafts = <<>>
  /\ (\E k \in 1..Len(reqs) : reqs[k].sql.op = "update") => SaveAnswered
  /\ SaveAnswered =>
       /\ IsUpdateOf(1, ret.in.call.resource, Head(ret.in.call.ids),
                     draftOf(ret.in.call.drafts, Head(ret.in.call.ids)))
       /\ \A k \in 2..Len(reqs) : reqs[k].sql.op # "update"
       /\ ret.in.call.saved \o ret.in.call.ids
            = [i \in 1..Len(ret.in.call.drafts) |-> ret.in.call.drafts[i].id]
       /\ ret.out.done => (ret.ok /\ Len(ret.in.call.ids) = 1)

EditsSentOnlyBySaveWitness ==
  /\ SaveAnswered
  /\ ret.out.done
  /\ Len(ret.in.call.saved) = 2
  /\ res.drafts = <<>>
  /\ ret.in.drafts # <<>>

\* the rows and columns the store held for a table when the screen was
\* first mounted
StoreIds(name) == RecordIds(ScreenStore[TableIndex(ScreenStore, name)].rows)
StoreColumns(name) ==
  {ScreenStore[TableIndex(ScreenStore, name)].cols[i].name :
     i \in 1..Len(ScreenStore[TableIndex(ScreenStore, name)].cols)}

\* C23: a switch of the active table resets the view state of the screen:
\* the records, the selection and the drafts it holds, and the ids and
\* fields of every update or delete it sends, belong to the table the
\* request or the screen is about, never to the table shown before.
SwitchResetsViewState ==
  /\ ret.op = "setActiveResource" => res = Mounted(ret.in.resource, res.mount)
  /\ RecordIds(res.allRecords) \subseteq StoreIds(res.resource)
  /\ res.selectedIds \subseteq StoreIds(res.resource)
  /\ \A i \in 1..Len(res.drafts) :
       /\ res.drafts[i].id \in StoreIds(res.resource)
       /\ \A k \in 1..Len(res.drafts[i].values) :
            res.drafts[i].values[k].key \in StoreColumns(res.resource)
  /\ \A k \in 1..Len(reqs) :
       /\ reqs[k].sql.op = "delete" =>
            \A i \in 1..Len(reqs[k].params) :
              IdOfParam(reqs[k].params[i]) \in StoreIds(NameOf(reqs[k].sql.table))
       /\ reqs[k].sql.op = "update" =>
            /\ IdOfParam(reqs[k].params[Len(reqs[k].params)])
                 \in StoreIds(NameOf(reqs[k].sql.table))
            /\ \A i \in 1..Len(reqs[k].sql.set) :
                 NameOf(reqs[k].sql.set[i]) \in StoreColumns(NameOf(reqs[k].sql.table))

SwitchResetsViewStateWitness ==
  /\ res.mount = 2
  /\ res.resource = <<"u">>
  /\ SaveAnswered
  /\ ret.ok
  /\ ret.in.call.mount = 1
  /\ res.allRecords # <<>>
  /\ res.drafts # <<>>
  /\ res.selectedIds # {}

\* C24: once the list is loaded, the selected ids are ids of the records
\* accumulated for display, also after the search filter changed while a
\* selection existed.
SelectedAreDisplayed ==
  (res.listData # <<>> /\ ~res.isFetching) =>
    res.selectedIds \subseteq RecordIds(res.allRecords)

\* C29: Save sends the updates one after another; when the update of a
\* row fails no further update is sent, the store keeps the rows already
\* updated, the drafts are all kept and isSavingDrafts is false again; the
\* drafts are emptied only when every update succeeded.
SaveStopsAtFailure ==
  SaveAnswered =>
    /\ ~ret.ok =>
         /\ Len(reqs) = 1
         /\ db = ret.before
         /\ \A i \in 1..Len(arg) :
              arg[i].mount # ret.in.call.mount \/ arg[i].op # "handleSaveAll"
         /\ \A i \in 1..Len(ret.in.call.saved) :
              \A r \in 1..Len(db[TableIndex(db, ret.in.call.resource)].rows) :
                db[TableIndex(db, ret.in.call.resource)].rows[r].id
                    = ret.in.call.saved[i] =>
                  \A k \in 1..Len(draftOf(ret.in.call.drafts, ret.in.call.saved[i])) :
                    db[TableIndex(db, ret.in.call.resource)].rows[r].vals[
                        draftOf(ret.in.call.drafts, ret.in.call.saved[i])[k].key]
                      = draftOf(ret.in.call.drafts, ret.in.call.saved[i])[k].value
         /\ res.drafts = ret.in.drafts
         /\ ~res.isSavingDrafts
    /\ (ret.ok /\ Len(ret.in.call.ids) > 1) =>
         /\ res.drafts = ret.in.drafts
         /\ res.isSavingDrafts
         /\ \E i \in 1..Len(arg) :
              arg[i] = [ret.in.call EXCEPT !.ids = Tail(@),
                                           !.saved = Append(@, Head(ret.in.call.ids))]
    /\ (res.drafts = <<>> /\ ret.in.drafts # <<>>) =>
         /\ ret.ok
         /\ Len(ret.in.call.ids) = 1
         /\ ~res.isSavingDrafts

SaveStopsAtFailureWitness ==
  /\ SaveAnswered
  /\ ~ret.ok
  /\ Len(ret.in.call.saved) = 1
  /\ Len(ret.in.call.ids) = 2
  /\ Len(res.drafts) = 3
  /\ db # ScreenStore

\* the rows of the table on display that match the filters of the screen
MatchingIds ==
  {db[TableIndex(db, res.resource)].rows[i].id :
     i \in {k \in 1..Len(db[TableIndex(db, res.resource)].rows) :
              MatchesFilters(db[TableIndex(db, res.resource)],
                             db[TableIndex(db, res.resource)].rows[k],
                             res.filters)}}

\* C30: over a table whose content does not change, once infinite scrolling
\* has set hasMore to false and no fetch is in flight, the accumulated list
\* holds each row matching the filter exactly once.
ScrollLoadsEveryRow ==
  (/\ db = ScreenStore
   /\ res.listData # <<>>
   /\ ~res.isFetching
   /\ ~res.hasMore
   /\ res.filters = filtersOf(res.searchValue))
  => /\ RecordIds(res.allRecords) = MatchingIds
     /\ Len(res.allRecords) = Cardinality(MatchingIds)

(***************************************************************************)
(* SpecApp: the table list and the active table held by App; res is the    *)
(* state of App                                                            *)
(***************************************************************************)
\* useState of App before the console has connected
Disconnected == [dbReady |-> FALSE, tables |-> <<>>, activeResource |-> <<>>]

\* foundTables.includes(activeResource)
Listed(tables, name) == \E k \in 1..Len(tables) : tables[k] = name

\* refreshTables(newlyCreatedTable): an error of getTableNames is logged
\* and leaves the state as it was
refreshTables(store, app, newlyCreatedTable) ==
  LET found(r) ==
        [ok |-> r.ok, db |-> r.db, reqs |-> r.reqs,
         app |-> IF ~r.ok THEN app
                 ELSE [app EXCEPT
                         !.tables = r.names,
                         !.activeResource =
                           IF newlyCreatedTable # <<>> THEN newlyCreatedTable
                           ELSE IF r.names # <<>>
                           THEN (IF @ = <<>> \/ ~Listed(r.names, @)
                                 THEN r.names[1] ELSE @)
                           ELSE <<>>]]
  IN  found(getTableNames(store))

\* onSuccess of AddTableModal after a handler that created the table:
\* setIsAddTableOpen(false); refreshTables(name)
onSuccess(app, made) ==
  LET refreshed(r) == [app |-> r.app, db |-> r.db, reqs |-> made.reqs \o r.reqs]
  IN  IF ~made.created
      THEN [app |-> app, db |-> made.db, reqs |-> made.reqs]
      ELSE refreshed(refreshTables(made.db, app, made.finalName))

InitApp ==
  /\ arg = <<>>
  /\ res = Disconnected
  /\ db \in {<<>>, <<Table(<<"t">>, <<Col(<<"s">>, TEXT)>>)>>}
  /\ ret = NoResult
  /\ reqs = <<>>

\* the init effect of App: initDatabase(), getTableNames(), the first table
\* found becomes the active one
Connect ==
  /\ ~res.dbReady
  /\ \E found \in {getTableNames(db)} :
       /\ res' = [dbReady |-> TRUE, tables |-> found.names,
                  activeResource |-> IF found.names # <<>> THEN found.names[1]
                                     ELSE <<>>]
       /\ ret' = Result("initDatabase", found.ok, <<>>, [names |-> found.names], db)
       /\ reqs' = <<[sql |-> [op |-> "probe"], params |-> <<>>]>> \o found.reqs
       /\ db' = found.db
       /\ UNCHANGED arg

\* the create-table form is submitted on its manual tab
AppManualCreate ==
  /\ res.dbReady
  /\ \E tableName \in FormTableNames, columns \in ScreenColumnLists :
     \E made \in {handleManualCreate(db, tableName, columns)} :
     \E r \in {onSuccess(res, made)} :
       /\ res' = r.app
       /\ ret' = Result("handleManualCreate", made.created,
                        [tableName |-> tableName, columns |-> columns],
                        [alert |-> made.alert, finalName |-> made.finalName], db)
       /\ reqs' = r.reqs
       /\ db' = r.db
       /\ UNCHANGED arg

\* the create-table form is submitted on its CSV tab
AppCsvCreate ==
  /\ res.dbReady
  /\ \E tableName \in FormTableNames, csvData \in ScreenFiles :
     \E made \in {handleCsvCreate(db, tableName, csvData)} :
     \E r \in {onSuccess(res, made)} :
       /\ res' = r.app
       /\ ret' = Result("handleCsvCreate", made.created,
                        [tableName |-> tableName, headers |-> csvData.headers,
                         rows |-> csvData.rows],
                        [alert |-> made.alert, finalName |-> made.finalName], db)
       /\ reqs' = r.reqs
       /\ db' = r.db
       /\ UNCHANGED arg

\* the Delete Table confirmation for a table of the sidebar
AppDeleteTable ==
  /\ res.dbReady
  /\ \E k \in 1..Len(res.tables) :
     \E r \in {confirmDeleteTable(db, res.tables[k])} :
       /\ res' = IF ~r.ok THEN res
                 ELSE [res EXCEPT
                         !.tables = r.names,
                         !.activeResource =
                           IF @ = res.tables[k]
                           THEN (IF r.names # <<>> THEN r.names[1] ELSE <<>>)
                           ELSE @]
       /\ ret' = Result("confirmDeleteTable", r.ok,
                        [tableToDelete |-> res.tables[k]], [names |-> r.names], db)
       /\ reqs' = r.reqs
       /\ db' = r.db
       /\ UNCHANGED arg

\* a table of the sidebar is clicked
SelectTable ==
  /\ res.dbReady
  /\ \E k \in 1..Len(res.tables) :
       /\ res' = [res EXCEPT !.activeResource = res.tables[k]]
       /\ ret' = Result("setActiveResource", TRUE, [resource |-> res.tables[k]],
                        <<>>, db)
       /\ reqs' = <<>>
       /\ UNCHANGED <<arg, db>>

NextApp ==
  \/ Connect
  \/ AppManualCreate
  \/ AppCsvCreate
  \/ AppDeleteTable
  \/ SelectTable

SpecApp == InitApp /\ [][NextApp]_vars

\* C28: after any completed creation, deletion or refresh the active
\* resource is the empty string or a member of the table list held, and it
\* is the empty string exactly when that list is empty.
ActiveResourceListed ==
  res.dbReady =>
    /\ res.activeResource = <<>> \/ Listed(res.tables, res.activeResource)
    /\ (res.activeResource = <<>>) <=> (res.tables = <<>>)

(***************************************************************************)
(* SpecCsvFailure: the CSV tab of the create-table form when the endpoint  *)
(* refuses one INSERT of createTableFromCSV, and the same form submitted   *)
(* again. res holds the submission that failed after its CREATE TABLE.     *)
(***************************************************************************)
\* the for loop of createTableFromCSV continuing with the next row after a
\* refused INSERT
RECURSIVE insertCsvRowsContinuing(_, _, _, _, _, _)
insertCsvRowsContinuing(store, table, safeHeaderNames, headers, rows, failAt) ==
  IF rows = <<>> THEN [ok |-> failAt > 0, db |-> store, reqs |-> <<>>]
  ELSE LET vals == [i \in 1..Len(headers) |-> Field(Head(rows), headers[i])]
           sql == [op |-> "insert", table |-> table, cols |-> safeHeaderNames]
           inserted(r) ==
             LET after(rest) ==
                   [ok |-> r.ok /\ rest.ok, db |-> rest.db, reqs |-> r.reqs \o rest.reqs]
             IN  after(insertCsvRowsContinuing(r.db, table, safeHeaderNames, headers,
                                               Tail(rows), failAt - 1))
       IN  inserted(IF failAt = 1 THEN remoteExecuteRefused(store, sql, vals)
                    ELSE remoteExecute(store, sql, vals))

\* the for loop of createTableFromCSV when the endpoint refuses the INSERT
\* of row failAt (none when failAt is 0): the rejection of the awaited
\* remoteExecute leaves the loop
RECURSIVE insertCsvRowsFailing(_, _, _, _, _, _)
insertCsvRowsFailing(store, table, safeHeaderNames, headers, rows, failAt) ==
  IF rows = <<>> THEN [ok |-> TRUE, db |-> store, reqs |-> <<>>]
  ELSE LET vals == [i \in 1..Len(headers) |-> Field(Head(rows), headers[i])]
           sql == [op |-> "insert", table |-> table, cols |-> safeHeaderNames]
           inserted(r) ==
             IF ~r.ok THEN [ok |-> FALSE, db |-> r.db, reqs |-> r.reqs]
             ELSE LET after(rest) ==
                        [ok |-> rest.ok, db |-> rest.db, reqs |-> r.reqs \o rest.reqs]
                  IN  after(insertCsvRowsFailing(r.db, table, safeHeaderNames, headers,
                                                 Tail(rows), failAt - 1))
       IN  inserted(IF failAt = 1 THEN remoteExecuteRefused(store, sql, vals)
                    ELSE remoteExecute(store, sql, vals))

\* createTableFromCSV(tableName, headers, rows) with the INSERT of row
\* failAt refused
createTableFromCSVFailing(store, tableName, headers, rows, failAt) ==
  LET safeTableName == Ident(tableName, safeName(tableName))
      processedHeaders ==
        [i \in 1..Len(headers) |->
           IF toLowerCase(trim(headers[i])) = ID
           THEN <<"i","d","_","o","r","i","g","i","n","a","l">>
           ELSE trim(headers[i])]
      safeHeaderNames ==
        [i \in 1..Len(headers) |-> Ident(processedHeaders[i], safeName(processedHeaders[i]))]
      created(c) ==
        IF ~c.ok THEN [ok |-> FALSE, db |-> c.db, reqs |-> c.reqs]
        ELSE LET filled(ins) == [ok |-> ins.ok, db |-> ins.db, reqs |-> c.reqs \o ins.reqs]
             IN  filled(insertCsvRowsFailing(c.db, safeTableName, safeHeaderNames, headers,
                                             rows, failAt))
  IN  created(remoteExecute(store,
                [op |-> "create", table |-> safeTableName,
                 cols |-> [i \in 1..Len(headers) |->
                             [name |-> safeHeaderNames[i], type |-> <<"T","E","X","T">>]]],
                <<>>))

\* handleCsvCreate() with a parsed file, the INSERT of row failAt refused
handleCsvCreateFailing(store, tableName, csvData, failAt) ==
  LET finalName == toLowerCase(trim(tableName))
      validated(v) ==
        IF v.error # NoError
        THEN [created |-> FALSE, alert |-> v.error, finalName |-> finalName,
              db |-> v.db, reqs |-> v.reqs]
        ELSE LET made(c) ==
                   [created |-> c.ok,
                    alert |-> IF c.ok THEN NoError ELSE "Error creating table from CSV",
                    finalName |-> finalName, db |-> c.db, reqs |-> v.reqs \o c.reqs]
             IN  made(createTableFromCSVFailing(v.db, finalName, csvData.headers,
                                                csvData.rows, failAt))
  IN  validated(validateTableName(store, tableName))

\* no submission has failed
NoAttempt ==
  [pending |-> FALSE, tableName |-> <<>>,
   csvData |-> [headers |-> <<>>, rows |-> <<>>]]

InitCsvFailure ==
  /\ arg = <<>>
  /\ res = NoAttempt
  /\ db = <<>>
  /\ ret = NoResult
  /\ reqs = <<>>

\* the form is submitted on its CSV tab; the endpoint refuses the INSERT of
\* row failAt, or none
CsvCreateFailing ==
  /\ ~res.pending
  /\ \E tableName \in FormTableNames, csvData \in FormFiles :
     \E failAt \in 0..Len(csvData.rows) :
     \E r \in {handleCsvCreateFailing(db, tableName, csvData, failAt)} :
       /\ db' = r.db
       /\ reqs' = r.reqs
       /\ ret' = Result("handleCsvCreate", r.created,
                        [tableName |-> tableName, headers |-> csvData.headers,
                         rows |-> csvData.rows, failAt |-> failAt, retry |-> FALSE],
                        [alert |-> r.alert, finalName |-> r.finalName], db)
       /\ res' = IF ~r.created /\ ~HasTable(db, r.finalName) /\ HasTable(r.db, r.finalName)
                 THEN [pending |-> TRUE, tableName |-> tableName, csvData |-> csvData]
                 ELSE NoAttempt
       /\ UNCHANGED arg

\* the form, left open with its name and file by the failure, is submitted
\* again; the endpoint answers every request
CsvCreateRetry ==
  /\ res.pending
  /\ \E r \in {handleCsvCreateFailing(db, res.tableName, res.csvData, 0)} :
       /\ db' = r.db
       /\ reqs' = r.reqs
       /\ ret' = Result("handleCsvCreate", r.created,
                        [tableName |-> res.tableName, headers |-> res.csvData.headers,
                         rows |-> res.csvData.rows, failAt |-> 0, retry |-> TRUE],
                        [alert |-> r.alert, finalName |-> r.finalName], db)
       /\ res' = NoAttempt
       /\ UNCHANGED arg

\* the form is closed after the failure
CloseForm ==
  /\ res.pending
  /\ res' = NoAttempt
  /\ ret' = NoResult
  /\ reqs' = <<>>
  /\ UNCHANGED <<arg, db>>

NextCsvFailure ==
  \/ CsvCreateFailing
  \/ CsvCreateRetry
  \/ CloseForm

SpecCsvFailure == InitCsvFailure /\ [][NextCsvFailure]_vars

\* the submission ended with the INSERT of one of its rows refused
InsertRefused ==
  /\ ret.op = "handleCsvCreate"
  /\ ~ret.in.retry
  /\ ret.in.failAt > 0
  /\ res.pending

\* the requests after the listing query of the validation that are INSERTs
InsertsSent == {k \in 1..Len(reqs) : reqs[k].sql.op = "insert"}

\* the table of the failed submission holds exactly the first n rows of
\* the file, under ids 1..n
HoldsFirstRows(n) ==
  /\ HasTable(db, ret.out.finalName)
  /\ LET t == db[TableIndex(db, ret.out.finalName)]
     IN  /\ Len(t.rows) = n
         /\ \A k \in 1..n :
              /\ t.rows[k].id = k
              /\ \A i \in 1..Len(ret.in.headers) :
                   \E c \in DOMAIN t.rows[k].vals :
                     t.rows[k].vals[c] = ret.in.rows[k][ret.in.headers[i]]

\* every table the store held before the submission is held unchanged
OthersUntouched ==
  \A i \in 1..Len(ret.before) :
    \E j \in 1..Len(db) : db[j] = ret.before[i]

\* the submission is the retry of one that failed after its CREATE TABLE
Retried == ret.op = "handleCsvCreate" /\ ret.in.retry

\* the listing query of the store before the retry shows the name
ListedBefore ==
  LET shown(names) == \E i \in 1..Len(names) : names[i] = ret.out.finalName
  IN  shown(getTableNames(ret.before).names)

====
